---------------------------- MODULE Spec2Model ----------------------------
(***************************************************************************)
(* A model of the decision core of trade-streamer: position sizing         *)
(* (src/risk.js), the scaling plan (src/cli/ai-agent.js), contract         *)
(* selection (strategy/selector), expiry resolution and the baseline       *)
(* suggestion (strategy/options), the option-chain fetch                   *)
(* (src/providers/options-chain.js) and the callers that enrich a          *)
(* suggestion from a live chain.                                           *)
(*                                                                         *)
(* Numbers.  JavaScript numbers are modelled as exact rationals            *)
(* [n |-> numerator, d |-> denominator > 0] in lowest terms; IEEE-754      *)
(* rounding of single operations is not modelled.  An absent (null or      *)
(* undefined) value is the empty sequence <<>>, a present one <<v>>.        *)
(***************************************************************************)
EXTENDS Integers, Sequences, FiniteSets, TLC

VARIABLES
    riskIn,      \* <<a>>: the argument object of the current computeQty call
    riskOut,     \* <<r>>: what computeQty returned for it (<<>> before the call)
    planIn,      \* <<a>>: the argument object of the current buildScalingPlan call
    planOut,     \* <<p>>: the plan it returned (<<>> before the call)
    selIn,       \* <<a>>: options, side and thresholds of the current selector call
    selOut,      \* <<r>>: what selectOptimalOption returned, r itself <<>> or <<quote>>
    clock,       \* new Date(): the current instant, whole hours since the epoch
    zone,        \* the machine's offset from UTC in hours (local = UTC + zone)
    expIn,       \* <<a>>: the argument object of the current resolveExpiryDate call
    expOut,      \* <<r>>: what it returned, or the error it threw
    callIn,      \* <<a>>: the caller running, its parameters and what the providers answer
    pc,          \* the caller's position: build, fetch, target, optimal, nearest, apply, size, done
    suggestion,  \* <<s>>: the caller's suggestion object
    chainResult, \* <<r>>: what fetchOptionChain resolved to
    candidate,   \* the caller's candidate: <<>> (null) or <<c>>, c.opt the quote
    liveOption,  \* the caller's liveOption: <<>> (null) or the candidate taken
    steps,       \* the selector calls the caller has made, in order, each with its outcome
    sizing,      \* <<z>>: the arguments handed to computeQty and what it returned
    priceIn,     \* <<a>>: the argument object of the current bsOptionPrice call
    priceOut,    \* <<v>>: the number it returned (<<>> before the call)
    listening,   \* the dashboard server's app.listen callback has run
    env,         \* the server's environment: AGENT_INTERVAL_MS and the number of AI providers
    isScanning,  \* server.js: let isScanning
    scanTimer,   \* server.js: let scanTimer, <<>> (null) or <<id>> of the last setTimeout
    timers,      \* the setTimeout timers not yet fired or cleared, each [id, delay]
    nextScanDelayOverride, \* server.js: <<>> (null) or <<1500>>
    scanConfig,  \* server.js: let scanConfig, as the number of the accepted update (0 at start)
    latestResults, \* server.js: <<>> (null) or <<results of the last scan with a provider run>>
    lastScanMeta,  \* server.js: <<>> (null) or <<meta of the last finished scan>>
    lastScanError, \* server.js: <<>> (null) or <<message>>
    running,     \* the triggerScan calls past the guard and not yet returned
    scanCount,   \* how many scans have started
    lastResponse, \* <<>> or <<r>>: what the last request or timer callback was answered
    audit,       \* history: updates during the running scan, and the scans that finished
    retry,       \* the withRetries call: its attempt counter, where it stands, the errors met
    barNow,      \* Date.now() of the bars provider, ms
    cache,       \* bars.js: const cache, by key <<>> or <<[at, data]>> (Yahoo bars)
    fmpCache,    \* bars.js: const fmpCache, likewise (FMP bars)
    flights,     \* the network requests of the bars provider that have not settled
    barCalls,    \* how many fetches have been called
    barLog,      \* <<>> or <<r>>: how the last fetch call was answered
    barOk        \* by cache and key, <<>> or <<the last fetch that came back with bars>>

riskVars == <<riskIn, riskOut>>
planVars == <<planIn, planOut>>
selVars == <<selIn, selOut>>
expVars == <<clock, zone, expIn, expOut>>
callerVars == <<callIn, pc, suggestion, chainResult, candidate, liveOption, steps, sizing>>
priceVars == <<priceIn, priceOut>>
serverVars ==
    <<listening, env, isScanning, scanTimer, timers, nextScanDelayOverride, scanConfig,
      latestResults, lastScanMeta, lastScanError, running, scanCount, lastResponse, audit>>
retryVars == <<retry>>
barVars == <<barNow, cache, fmpCache, flights, barCalls, barLog, barOk>>
feedVars == <<retryVars, barVars>>
auxVars == <<priceVars, serverVars, feedVars>>
coreVars == <<riskVars, planVars, selVars, expVars, callerVars>>
vars == <<riskVars, planVars, selVars, expVars, callerVars, auxVars>>


---------------------------------------------------------------------------
(* Exact rational arithmetic *)

Abs(x) == IF x < 0 THEN -x ELSE x

RECURSIVE GCD(_, _)
GCD(a, b) == IF b = 0 THEN a ELSE GCD(b, a % b)

\* The rational p/q (q # 0) in lowest terms with a positive denominator.
normalized(p, q, g) ==
    [n |-> ((IF q < 0 THEN -1 ELSE 1) * p) \div g,
     d |-> ((IF q < 0 THEN -1 ELSE 1) * q) \div g]
Rat(p, q) == normalized(p, q, GCD(Abs(p), Abs(q)))

RInt(k) == [n |-> k, d |-> 1]
RAdd(a, b) == Rat(a.n * b.d + b.n * a.d, a.d * b.d)
RSub(a, b) == Rat(a.n * b.d - b.n * a.d, a.d * b.d)
RMul(a, b) == Rat(a.n * b.n, a.d * b.d)
RDiv(a, b) == Rat(a.n * b.d, a.d * b.n)
RLe(a, b) == a.n * b.d <= b.n * a.d
RLt(a, b) == a.n * b.d < b.n * a.d
RMin(a, b) == IF RLe(a, b) THEN a ELSE b
RMax(a, b) == IF RLe(a, b) THEN b ELSE a
RAbs(a) == [n |-> Abs(a.n), d |-> a.d]
\* Math.floor and Math.ceil of a rational (\div rounds towards minus infinity).
RFloor(a) == a.n \div a.d
RCeil(a) == -((-a.n) \div a.d)

---------------------------------------------------------------------------
(* JavaScript numbers that need not be finite *)

\* A number is a rational or one of NaN, Infinity and -Infinity, told from
\* the rationals by a zero denominator.  The sign of zero is not kept.
NaN == [n |-> 0, d |-> 0]
PosInf == [n |-> 1, d |-> 0]
NegInf == [n |-> -1, d |-> 0]
IsNaN(x) == x = NaN
IsFiniteNum(x) == x.d # 0                    \* isFinite(x)
Sgn(x) == IF x.n > 0 THEN 1 ELSE IF x.n < 0 THEN -1 ELSE 0
InfOfSign(s) == IF s < 0 THEN NegInf ELSE PosInf

\* a <= b and a < b: false when either side is NaN.
FLe(a, b) ==
    IF IsNaN(a) \/ IsNaN(b) THEN FALSE
    ELSE IF a = NegInf \/ b = PosInf THEN TRUE
    ELSE IF a = PosInf \/ b = NegInf THEN FALSE
    ELSE RLe(a, b)
FLt(a, b) == FLe(a, b) /\ a # b

\* a - b, a * b and a / b.
FSub(a, b) ==
    IF IsNaN(a) \/ IsNaN(b) THEN NaN
    ELSE IF ~IsFiniteNum(a) THEN (IF a = b THEN NaN ELSE a)
    ELSE IF ~IsFiniteNum(b) THEN InfOfSign(-Sgn(b))
    ELSE RSub(a, b)
FMul(a, b) ==
    IF IsNaN(a) \/ IsNaN(b) THEN NaN
    ELSE IF ~IsFiniteNum(a) \/ ~IsFiniteNum(b)
         THEN (IF Sgn(a) = 0 \/ Sgn(b) = 0 THEN NaN ELSE InfOfSign(Sgn(a) * Sgn(b)))
    ELSE RMul(a, b)
FDiv(a, b) ==
    IF IsNaN(a) \/ IsNaN(b) THEN NaN
    ELSE IF ~IsFiniteNum(a)
         THEN (IF ~IsFiniteNum(b) THEN NaN
               ELSE InfOfSign(Sgn(a) * (IF Sgn(b) < 0 THEN -1 ELSE 1)))
    ELSE IF ~IsFiniteNum(b) THEN RInt(0)
    ELSE IF Sgn(b) = 0 THEN (IF Sgn(a) = 0 THEN NaN ELSE InfOfSign(Sgn(a)))
    ELSE RDiv(a, b)

\* Math.min and Math.max of two numbers: NaN when either is NaN.
FMin(a, b) == IF IsNaN(a) \/ IsNaN(b) THEN NaN ELSE IF FLe(a, b) THEN a ELSE b
FMax(a, b) == IF IsNaN(a) \/ IsNaN(b) THEN NaN ELSE IF FLe(a, b) THEN b ELSE a

---------------------------------------------------------------------------
(* RiskSizer: src/risk.js computeQty *)

\* Strategy caps of computeQty.  Risk fractions are in parts per 100000.
DayTradeRiskCap == 1000
DayTradeMaxContracts == 5
SwingRiskCap == 2000
SwingMaxContracts == 10
ScalpRiskCap == 200
ScalpMaxContracts == 2
DefaultMultiplier == 100
DefaultMaxContracts == 100

Pcm(k) == Rat(k, 100000)

\* risk.js:9-25, the riskPct side of the switch.  A day_trade cap that loosens.
adjustedRiskPct_loosening(strategy, riskPct) ==
    CASE strategy = "day_trade"   -> RMax(riskPct, Pcm(DayTradeRiskCap))
      [] strategy = "swing_trade" -> RMin(RMul(riskPct, Rat(3, 2)), Pcm(SwingRiskCap))
      [] strategy = "scalping"    -> RMin(riskPct, Pcm(ScalpRiskCap))
      [] OTHER                    -> riskPct

adjustedRiskPct(strategy, riskPct) ==
    CASE strategy = "day_trade"   -> FMin(riskPct, Pcm(DayTradeRiskCap))
      [] strategy = "swing_trade" -> FMin(FMul(riskPct, Rat(3, 2)), Pcm(SwingRiskCap))
      [] strategy = "scalping"    -> FMin(riskPct, Pcm(ScalpRiskCap))
      [] OTHER                    -> riskPct

\* risk.js:9-25, the maxContracts side of the switch.
adjustedMaxContracts(strategy, maxContracts) ==
    CASE strategy = "day_trade"   -> IF maxContracts < DayTradeMaxContracts
                                     THEN maxContracts ELSE DayTradeMaxContracts
      [] strategy = "swing_trade" -> IF maxContracts < SwingMaxContracts
                                     THEN maxContracts ELSE SwingMaxContracts
      [] strategy = "scalping"    -> IF maxContracts < ScalpMaxContracts
                                     THEN maxContracts ELSE ScalpMaxContracts
      [] OTHER                    -> maxContracts

\* risk.js:28 with Math.ceil where the code has Math.floor.
floorQty_ceil(riskBudget, perContractRisk) ==
    RCeil(RDiv(riskBudget, perContractRisk))

\* risk.js:28, Math.floor(riskBudget / perContractRisk), where the quotient is
\* finite.
floorQty(riskBudget, perContractRisk) ==
    RFloor(FDiv(riskBudget, perContractRisk))

\* risk.js:28-29: the floor of a NaN or infinite quotient is that quotient, and
\* a quantity that is not finite or is negative becomes 0.
clampedQty(riskBudget, perContractRisk) ==
    IF ~IsFiniteNum(FDiv(riskBudget, perContractRisk)) THEN 0
    ELSE IF floorQty(riskBudget, perContractRisk) < 0 THEN 0
    ELSE floorQty(riskBudget, perContractRisk)

\* risk.js:30, Math.min(qty, adjustedMaxContracts).
cappedQty(qty, amc) == IF qty < amc THEN qty ELSE amc

\* risk.js:2.
perContractRiskOf(entry, stop, multiplier) ==
    FMul(FMax(RInt(0), FSub(entry, stop)), RInt(multiplier))

\* risk.js:3, the test of the early return, strict.
earlyReturn_strict(perContractRisk) == FLt(perContractRisk, RInt(0))

\* risk.js:3, the test of the early return.
earlyReturn(perContractRisk) == FLe(perContractRisk, RInt(0))

\* risk.js:32-39.
sizedResult(qty, perContractRisk, arp, riskBudget, strategy) ==
    [qty |-> qty, perContractRisk |-> perContractRisk,
     totalRisk |-> FMul(RInt(qty), perContractRisk),
     adjustedRiskPct |-> arp, riskBudget |-> riskBudget, strategy |-> strategy]

\* risk.js:3-39.
sizedFor(a, perContractRisk, arp, amc) ==
    IF earlyReturn(perContractRisk)
    THEN [qty |-> 0, perContractRisk |-> RInt(0), totalRisk |-> RInt(0)]
    ELSE sizedResult(cappedQty(clampedQty(FMul(a.accountSize, arp), perContractRisk), amc),
                     perContractRisk, arp, FMul(a.accountSize, arp), a.strategy)

\* risk.js:1-40.  a is the argument object with its defaults filled in.  The
\* early return carries only qty, perContractRisk and totalRisk; maxContracts
\* is an integer here, so that Math.min(qty, adjustedMaxContracts) is one.
computeQty(a) ==
    sizedFor(a, perContractRiskOf(a.entry, a.stop, a.multiplier),
             adjustedRiskPct(a.strategy, a.riskPct),
             adjustedMaxContracts(a.strategy, a.maxContracts))

\* A price of c cents, in dollars.
Cents(c) == Rat(c, 100)

---------------------------------------------------------------------------
(* ScalingPlanBuilder: src/cli/ai-agent.js buildScalingPlan *)

\* Number(x.toFixed(2)): x rounded to the cent.  toFixed rounds the exact
\* value of the double, so a decimal tie (x.xx5) goes up or down with the
\* double's binary expansion: tieUp is that outcome.
roundedCents(scaled, lo, tieUp) ==
    IF RLt(RSub(scaled, RInt(lo)), Rat(1, 2)) THEN lo
    ELSE IF RLt(Rat(1, 2), RSub(scaled, RInt(lo))) THEN lo + 1
    ELSE IF (tieUp <=> scaled.n >= 0) THEN lo + 1 ELSE lo
ToFixed2(x, tieUp) ==
    Cents(roundedCents(RMul(x, RInt(100)), RFloor(RMul(x, RInt(100))), tieUp))

\* ai-agent.js:186-189, scaledTarget(factor) for finite entry and takeProfit;
\* factor is in tenths (13 for 1.3, 16 for 1.6).
scaledTarget(entry, baseTarget, factor10, tieUp) ==
    ToFixed2(RAdd(entry, RMul(RSub(baseTarget, entry), Rat(factor10, 10))), tieUp)

\* addIteration dropping a sell quantity of one (qtyInt <= 1 for qtyInt <= 0).
addIteration_offByOne(iterations, sellQty, target, note, tieUp) ==
    IF sellQty <= 1 THEN iterations
    ELSE Append(iterations,
                [sellQty |-> sellQty, target |-> ToFixed2(target, tieUp), note |-> note])

\* ai-agent.js:191-204, addIteration: Math.round leaves an integer sell
\* quantity as it is, and nothing is appended when it is not positive.
addIteration(iterations, sellQty, target, note, tieUp) ==
    IF sellQty <= 0 THEN iterations
    ELSE Append(iterations,
                [sellQty |-> sellQty, target |-> ToFixed2(target, tieUp), note |-> note])

\* ai-agent.js:211, Math.max(1, Math.ceil(qty * 0.5)).
firstQty(qty) == IF RCeil(Rat(qty, 2)) < 1 THEN 1 ELSE RCeil(Rat(qty, 2))

\* ai-agent.js:221 with Math.ceil where the code has Math.floor.
secondQty_ceil(remaining) ==
    IF RCeil(Rat(remaining, 2)) < 1 THEN 1 ELSE RCeil(Rat(remaining, 2))

\* ai-agent.js:221, Math.max(1, Math.floor(remaining / 2)).
secondQty(remaining) ==
    IF RFloor(Rat(remaining, 2)) < 1 THEN 1 ELSE RFloor(Rat(remaining, 2))

\* ai-agent.js:178-230 for an integer qty and finite entry, takeProfit, stop.
buildScalingPlan(a) ==
    LET qty == a.qty
        baseTarget == ToFixed2(a.takeProfit, a.tieUp)
        first == firstQty(qty)
        rem1 == qty - first
        second == secondQty(rem1)
        it1 == addIteration(<<>>, first, baseTarget, "half", a.tieUp)
        it2 == addIteration(it1, second,
                            scaledTarget(a.entry, baseTarget, 13, a.tieUp),
                            "extension", a.tieUp)
    IN  [qty |-> qty, stop |-> a.stop, iterations |->
            IF qty <= 0 THEN <<>>
            ELSE IF qty = 1
                 THEN addIteration(<<>>, 1, baseTarget, "full", a.tieUp)
            ELSE IF rem1 <= 0 THEN it1
            ELSE IF rem1 = 1
                 THEN addIteration(it1, 1,
                                   scaledTarget(a.entry, baseTarget, 13, a.tieUp),
                                   "runner", a.tieUp)
            ELSE IF rem1 - second > 0
                 THEN addIteration(it2, rem1 - second,
                                   scaledTarget(a.entry, baseTarget, 16, a.tieUp),
                                   "final", a.tieUp)
            ELSE it2]

---------------------------------------------------------------------------
(* ContractSelector: strategy/selector midPrice, pickByDelta, pickByPremium, *)
(* pickNearestStrike, selectOptimalOption                                    *)
(*                                                                           *)
(* A quote is a record as normalizeOptionRecord builds it: strike (dollars), *)
(* type, and bid, ask, last (cents), delta (hundredths), oi and vol, each a  *)
(* finite number or NoNum (null).  An optional result is <<>> (null) or <<v>>*)

NoNum == -(10 ^ 6)

\* Number.isFinite(x) for a field that is a finite number or null.
IsNum(x) == x # NoNum

\* side.toUpperCase() === 'PUT' ? 'PUT' : 'CALL'
TypeOfSide(side) == IF side = "put" THEN "PUT" ELSE "CALL"

\* selector midPrice({bid, ask, last})
midPrice(q) ==
    IF IsNum(q.bid) /\ IsNum(q.ask) /\ q.ask >= q.bid /\ q.ask > 0
        THEN <<Rat(q.bid + q.ask, 200)>>
    ELSE IF IsNum(q.last) THEN <<Cents(q.last)>>
    ELSE IF IsNum(q.ask) THEN <<Cents(q.ask)>>
    ELSE IF IsNum(q.bid) THEN <<Cents(q.bid)>>
    ELSE <<>>

\* Math.log10 in units of 1/10000, tabulated (rounded to the nearest unit)
\* on the arguments the checked instances use.
Log10E4(n) ==
    CASE n = 1 -> 0
      [] n = 11 -> 10414
      [] n = 51 -> 17076
      [] n = 85 -> 19294
      [] n = 110 -> 20414
      [] n = 160 -> 22041
      [] n = 301 -> 24786
      [] n = 501 -> 26998
      [] n = 1000 -> 30000
      [] n = 1001 -> 30004

\* A score in 1/10000: scores are fixed-point numbers here, each rounded down
\* to 1/10000 (the code's are doubles, rounded at about 1e-16).
E4(x) == RFloor(RMul(x, RInt(10000)))

\* spreadPct with an unknown spread counted as 0.35, whatever maxSpreadPct is.
spreadPctOf_fixedUnknown(q, mid, maxSpreadPct) ==
    IF IsNum(q.bid) /\ IsNum(q.ask)
    THEN RDiv(IF q.ask - q.bid < 0 THEN RInt(0) ELSE Cents(q.ask - q.bid), mid)
    ELSE Rat(35, 100)

\* spread = Math.max(0, ask - bid) when bid and ask are finite, else null;
\* spreadPct = spread / mid, or maxSpreadPct when the spread is null
spreadPctOf(q, mid, maxSpreadPct) ==
    IF IsNum(q.bid) /\ IsNum(q.ask)
    THEN RDiv(IF q.ask - q.bid < 0 THEN RInt(0) ELSE Cents(q.ask - q.bid), mid)
    ELSE maxSpreadPct

\* selectOptimalOption's loop body (selector, the lines after the mid-price
\* test): the sub-scores (in 1/10000) and the weighted total (in 1/1000000)
\* of one priced quote.  o.targetDelta and o.maxSpreadPct are in hundredths.
scoreOption(q, type, o) ==
    LET mid == midPrice(q)[1]
        maxSpreadPct == Rat(o.maxSpreadPct, 100)
        spreadPct == spreadPctOf(q, mid, maxSpreadPct)
        oi == IF IsNum(q.oi) THEN q.oi ELSE 0
        vol == IF IsNum(q.vol) THEN q.vol ELSE 0
        deltaTarget == IF type = "PUT" THEN -Abs(o.targetDelta) ELSE Abs(o.targetDelta)
        deltaScore == IF ~IsNum(q.delta) THEN E4(Rat(1, 4))
                      ELSE E4(RMax(RInt(0),
                                   RSub(RInt(1), RDiv(Rat(Abs(q.delta - deltaTarget), 100),
                                                      Rat(1, 5)))))
        spreadScore == E4(RMax(RInt(0),
                               RSub(RInt(1),
                                    RDiv(spreadPct, RMax(maxSpreadPct, Rat(1, 100))))))
        oiScore == E4(RMin(RInt(1), Rat(Log10E4(oi + 1), Log10E4(o.minOpenInterest + 10))))
        volScore == E4(RMin(RInt(1), Rat(Log10E4(vol + 1), Log10E4(1000))))
        totalScore == (deltaScore * 45) + (spreadScore * 30) + (oiScore * 15) + (volScore * 10)
    IN  [mid |-> mid, deltaScore |-> deltaScore, spreadScore |-> spreadScore,
         oiScore |-> oiScore, volScore |-> volScore, totalScore |-> totalScore]

\* The loop's test with < where the code has >: the lowest score wins.
betterScore_lowest(totalScore, best) ==
    best = <<>> \/ totalScore < best[1].metrics.totalScore

\* The loop's test with bestScore starting at 0 where the code has -Infinity.
betterScore_fromZero(totalScore, best) ==
    IF best = <<>> THEN totalScore > 0 ELSE totalScore > best[1].metrics.totalScore

\* totalScore > bestScore, bestScore being -Infinity while best is null.
betterScore(totalScore, best) ==
    best = <<>> \/ totalScore > best[1].metrics.totalScore

\* selectOptimalOption's for loop from option i on, best being the best so far.
RECURSIVE selectLoop(_, _, _, _, _)
selectLoop(options, type, o, i, best) ==
    IF i > Len(options) THEN best
    ELSE LET q == options[i]
             m == midPrice(q)
         IN  IF q.type # type \/ m = <<>> \/ RLe(m[1], RInt(0))
             THEN selectLoop(options, type, o, i + 1, best)
             ELSE LET sc == scoreOption(q, type, o)
                  IN  selectLoop(options, type, o, i + 1,
                                 IF betterScore(sc.totalScore, best)
                                 THEN <<[opt |-> q, metrics |-> sc]>>
                                 ELSE best)

\* selectOptimalOption(options, side, {targetDelta, maxSpreadPct, minOpenInterest})
selectOptimalOption(options, side, o) ==
    IF Len(options) = 0 THEN <<>>
    ELSE selectLoop(options, TypeOfSide(side), o, 1, <<>>)

\* pickNearestStrike's for loop; bestDiff is Infinity while best is null.
RECURSIVE nearestLoop(_, _, _, _, _)
nearestLoop(options, type, targetStrike, i, best) ==
    IF i > Len(options) THEN best
    ELSE LET q == options[i]
         IN  IF q.type # type
             THEN nearestLoop(options, type, targetStrike, i + 1, best)
             ELSE nearestLoop(options, type, targetStrike, i + 1,
                     IF best = <<>> \/
                        RLt(RAbs(RSub(q.strike, targetStrike)),
                            RAbs(RSub(best[1].opt.strike, targetStrike)))
                     THEN <<[opt |-> q]>> ELSE best)

\* pickNearestStrike looking only at the quotes that have a mid price.
pickNearestStrike_priced(options, side, targetStrike) ==
    nearestLoop(SelectSeq(options, LAMBDA q : midPrice(q) # <<>>), TypeOfSide(side),
                targetStrike, 1, <<>>)

\* pickNearestStrike(options, side, targetStrike) for a finite targetStrike
pickNearestStrike(options, side, targetStrike) ==
    nearestLoop(options, TypeOfSide(side), targetStrike, 1, <<>>)

---------------------------------------------------------------------------
(* ExpiryResolver: strategy/options (src/unnamed/part_002)                  *)
(*                                                                          *)
(* A Date is an instant in whole hours since 1970-01-01T00:00Z; a calendar  *)
(* day is a number of days since 1970-01-01.  The machine's local time is   *)
(* UTC + tz hours.                                                          *)

\* Days since 1970-01-01 of the civil date y-m-d (m in 1..12).
DaysFromCivil(y, m, d) ==
    LET yy == IF m <= 2 THEN y - 1 ELSE y
        era == yy \div 400
        yoe == yy - era * 400
        mp == IF m > 2 THEN m - 3 ELSE m + 9
        doy == (153 * mp + 2) \div 5 + d - 1
        doe == yoe * 365 + yoe \div 4 - yoe \div 100 + doy
    IN  era * 146097 + doe - 719468

\* The civil date [y, m, d] of a day number.
CivilFromDays(z) ==
    LET zz == z + 719468
        era == zz \div 146097
        doe == zz - era * 146097
        yoe == (doe - doe \div 1460 + doe \div 36524 - doe \div 146096) \div 365
        doy == doe - (365 * yoe + yoe \div 4 - yoe \div 100)
        mp == (5 * doy + 2) \div 153
        d == doy - (153 * mp + 2) \div 5 + 1
        m == IF mp < 10 THEN mp + 3 ELSE mp - 9
    IN  [y |-> (yoe + era * 400) + (IF m <= 2 THEN 1 ELSE 0), m |-> m, d |-> d]

\* getUTCDay / getDay of a day number: 0 Sunday .. 6 Saturday.
DayOfWeek(day) == (day + 4) % 7

UtcDay(t) == t \div 24                  \* the UTC calendar day of an instant
UtcHours(t) == t % 24                   \* getUTCHours
LocalDay(t, tz) == (t + tz) \div 24     \* the local calendar day
LocalHours(t, tz) == (t + tz) % 24      \* getHours
UtcMidnight(day) == day * 24            \* new Date(Date.UTC(y, m, d))
LocalMidnight(day, tz) == day * 24 - tz \* new Date(y, m, d)

\* The day number new Date(y, m0, d) and setMonth(m0, d) denote: m0 counts
\* from 0 and may run past 11, d may be 0 (the last day of the month before).
MakeDay(y, m0, d) == DaysFromCivil(y + m0 \div 12, (m0 % 12) + 1, 1) + d - 1

\* part_002:1-4
isWeekend(day) == DayOfWeek(day) = 0 \/ DayOfWeek(day) = 6

\* part_002:6-10, addDays(date, days): UTC midnight of the date's UTC day + days
addDays(t, days) == UtcMidnight(UtcDay(t) + days)

\* part_002:12-21, the while loop of businessDaysUntil from cur on
RECURSIVE businessDaysLoop(_, _)
businessDaysLoop(cur, to) ==
    IF cur < to
    THEN (IF isWeekend(UtcDay(cur)) THEN 0 ELSE 1) + businessDaysLoop(addDays(cur, 1), to)
    ELSE 0

businessDaysUntil(from, to) == businessDaysLoop(UtcMidnight(UtcDay(from)), to)

\* part_002:23-34
nextWeeklyExpiry(now, minBusinessDays) ==
    LET day == DayOfWeek(UtcDay(now))
        daysToFri == IF (5 - day + 7) % 7 = 0 THEN 7 ELSE (5 - day + 7) % 7
        friday == addDays(now, daysToFri)   \* the code's local candidate
    IN  IF businessDaysUntil(now, friday) < minBusinessDays
        THEN addDays(friday, 7)
        ELSE friday

\* part_002:39-43: endOfMonth = new Date(y, m + 1, 0) and, after the 15th,
\* endOfMonth.setMonth(endOfMonth.getMonth() + 1, 0), as a local day number.
monthlyEndOfMonth(now, tz) ==
    LET c == CivilFromDays(LocalDay(now, tz))
        endOfMonth == MakeDay(c.y, (c.m - 1) + 1, 0)
        e == CivilFromDays(endOfMonth)
    IN  IF c.d > 15 THEN MakeDay(e.y, (e.m - 1) + 1, 0) ELSE endOfMonth

\* part_002:36-49: back from endOfMonth to a Friday, a local midnight.
nextMonthlyExpiry(now, tz) ==
    LET endOfMonth == monthlyEndOfMonth(now, tz)
    IN  LocalMidnight(endOfMonth - ((DayOfWeek(endOfMonth) - 5 + 7) % 7), tz)

\* next0DTEExpiry without the weekend loop and rolling from 21:00 UTC on.
next0DTEExpiry_noWeekendSkip(now) ==
    IF UtcHours(now) >= 21 THEN addDays(now, 1) ELSE UtcMidnight(UtcDay(now))

\* part_002:59-61, while (isWeekend(candidate)) candidate = addDays(candidate, 1)
RECURSIVE skipWeekend(_)
skipWeekend(t) == IF isWeekend(UtcDay(t)) THEN skipWeekend(addDays(t, 1)) ELSE t

\* part_002:51-63
next0DTEExpiry(now) ==
    skipWeekend(IF UtcHours(now) >= 20 THEN addDays(UtcMidnight(UtcDay(now)), 1)
                ELSE UtcMidnight(UtcDay(now)))

\* part_002:65-75
getExpiryByType(expiryType, minBusinessDays, now, tz) ==
    CASE expiryType = "0dte"    -> next0DTEExpiry(now)
      [] expiryType = "monthly" -> nextMonthlyExpiry(now, tz)
      [] OTHER                  -> nextWeeklyExpiry(now, minBusinessDays)

\* part_002:77-82, formatExpiryISO: the UTC calendar day of the Date
formatExpiryISO(t) == UtcDay(t)

\* part_002:98-107, OPTION_CONFIG; strikeIncrement in cents, defaultOTMPct in 1/1000
OPTION_CONFIG ==
    [SPY   |-> [multiplier |-> 100, strikeIncrement |-> 100, supports0DTE |-> TRUE,
                defaultOTMPct |-> 4, fallbackExpiryType |-> <<>>],
     QQQ   |-> [multiplier |-> 100, strikeIncrement |-> 100, supports0DTE |-> TRUE,
                defaultOTMPct |-> 5, fallbackExpiryType |-> <<>>],
     AAPL  |-> [multiplier |-> 100, strikeIncrement |-> 100, supports0DTE |-> FALSE,
                defaultOTMPct |-> 10, fallbackExpiryType |-> <<>>],
     TSLA  |-> [multiplier |-> 100, strikeIncrement |-> 100, supports0DTE |-> FALSE,
                defaultOTMPct |-> 12, fallbackExpiryType |-> <<>>],
     GOOGL |-> [multiplier |-> 100, strikeIncrement |-> 100, supports0DTE |-> FALSE,
                defaultOTMPct |-> 8, fallbackExpiryType |-> <<>>],
     NVDA  |-> [multiplier |-> 100, strikeIncrement |-> 100, supports0DTE |-> FALSE,
                defaultOTMPct |-> 10, fallbackExpiryType |-> <<>>],
     CVNA  |-> [multiplier |-> 100, strikeIncrement |-> 100, supports0DTE |-> FALSE,
                defaultOTMPct |-> 15, fallbackExpiryType |-> <<>>],
     HOOD  |-> [multiplier |-> 100, strikeIncrement |-> 50, supports0DTE |-> FALSE,
                defaultOTMPct |-> 20, fallbackExpiryType |-> <<"weekly">>]]

HasConfig(symbol) == symbol \in DOMAIN OPTION_CONFIG

\* String.prototype.toLowerCase on the cadence strings of the checked instances
ToLowerCase(str) == IF str = "0DTE" THEN "0dte" ELSE str

\* resolveExpiryDate taking the requested cadence as it is: no look at
\* supports0DTE, no fallback, no reason.
resolveExpiryDate_noFallback(symbol, requestedType, minBusinessDays, override, now, tz) ==
    [date |-> getExpiryByType(ToLowerCase(requestedType), minBusinessDays, now, tz),
     effectiveType |-> ToLowerCase(requestedType),
     requestedType |-> ToLowerCase(requestedType),
     fallbackReason |-> <<>>]

\* strategy/options.js:136-137 and 203, the copy of the module without
\* resolveExpiryDate, for a call with an override: pickContract takes
\* new Date(expiryOverride) as it is, formatExpiryISO of an invalid Date gives
\* "NaN-NaN-NaN" and nothing is thrown; the suggestion reports the requested
\* cadence as its expiry_type.
pickContractOverride(requestedType, override) ==
    [date |-> IF override[1].valid THEN override[1].t ELSE "Invalid Date",
     effectiveType |-> requestedType,
     requestedType |-> requestedType, fallbackReason |-> <<>>]

\* part_002:124-162.  override is <<>> (none given) or <<[valid, t]>>: a
\* string new Date cannot parse (valid FALSE) or parses to the instant t.
resolveExpiryDate(symbol, requestedType, minBusinessDays, override, now, tz) ==
    IF override # <<>>
    THEN IF ~override[1].valid
         THEN [error |-> "Invalid expiry override"]
         ELSE [date |-> override[1].t, effectiveType |-> "custom",
               requestedType |-> requestedType, fallbackReason |-> <<>>]
    ELSE LET supports0DTE == HasConfig(symbol) /\ OPTION_CONFIG[symbol].supports0DTE
             confFallback == IF HasConfig(symbol)
                             THEN OPTION_CONFIG[symbol].fallbackExpiryType ELSE <<>>
             normalizedRequested == ToLowerCase(requestedType)
             unsupported0DTE == normalizedRequested = "0dte" /\ ~supports0DTE
             type1 == IF unsupported0DTE
                      THEN (IF confFallback # <<>> THEN ToLowerCase(confFallback[1])
                            ELSE "weekly")
                      ELSE normalizedRequested
             known == type1 \in {"0dte", "weekly", "monthly"}
             effectiveType == IF known THEN type1 ELSE "weekly"
             fallbackReason ==
                 IF ~known THEN <<"Unsupported expiry type; defaulting to weekly expiry.">>
                 ELSE IF unsupported0DTE
                      THEN <<"0DTE expiration not available for this symbol; falling back to weekly expiry.">>
                      ELSE <<>>
         IN  [date |-> getExpiryByType(effectiveType, minBusinessDays, now, tz),
              effectiveType |-> effectiveType,
              requestedType |-> normalizedRequested,
              fallbackReason |-> fallbackReason]

---------------------------------------------------------------------------
(* SuggestionBuilder: strategy/options (src/unnamed/part_002) pickContract, *)
(* bsOptionPrice, buildSuggestion                                           *)

\* The doubles of the checked instances.  underlyingPrice * (1 + targetOtmPct)
\* and underlyingPrice * (1 - targetOtmPct) are IEEE doubles: the product is
\* rounded and may lie just above or just below the exact product.  These
\* are the <<price in dollars, otmPct in 1/1000>> pairs of the checked
\* instances whose call target lies above, and whose put target lies below,
\* the exact product (450 * 1.08 is 486.00000000000006, 500 * 0.934 is
\* 466.99999999999994); no call target of them lies below it and no put
\* target above it.
CallTargetAbove ==
    {<<100, 4>>, <<100, 66>>, <<225, 4>>, <<225, 66>>, <<225, 80>>,
     <<450, 4>>, <<450, 66>>, <<450, 80>>}
PutTargetBelow ==
    {<<100, 4>>, <<100, 66>>, <<225, 4>>, <<225, 66>>, <<450, 4>>, <<450, 66>>,
     <<500, 66>>}

\* A double as its exact nearby value v and the side err the double lies on:
\* 1 above v, -1 below it, 0 equal to it.
targetDouble(side, underlyingPrice, targetOtmPct, exact) ==
    [v |-> exact,
     err |-> IF side = "call"
             THEN (IF <<RFloor(underlyingPrice), RFloor(RMul(targetOtmPct, RInt(1000)))>>
                         \in CallTargetAbove THEN 1 ELSE 0)
             ELSE (IF <<RFloor(underlyingPrice), RFloor(RMul(targetOtmPct, RInt(1000)))>>
                         \in PutTargetBelow THEN -1 ELSE 0)]

\* Math.ceil and Math.floor of the double q.v + err: the rounding error is
\* far smaller than the distance of a fractional q.v of the checked instances
\* from a whole number, so it shows only when q.v is whole.
ceilOfDouble(q, err) == IF q.d = 1 /\ err > 0 THEN q.n + 1 ELSE RCeil(q)
floorOfDouble(q, err) == IF q.d = 1 /\ err < 0 THEN q.n - 1 ELSE RFloor(q)

\* part_002:88-91 and 93-96 for a finite price.  The strike increments are 1
\* and 0.5, so the division and the multiplication are exact.
ceilStrike(price, increment) ==
    RMul(RInt(ceilOfDouble(RDiv(price.v, increment), price.err)), increment)
floorStrike(price, increment) ==
    RMul(RInt(floorOfDouble(RDiv(price.v, increment), price.err)), increment)

\* part_002:181-191.  hasTime is T > 0, sigma in hundredths.  The first
\* branch is the intrinsic value; the value of the Black-Scholes formula
\* (logarithm, exponential and the erf approximation) is not computed here:
\* bsValue is what the formula evaluates to for these arguments.
bsOptionPrice(S, K, hasTime, sigma, type, bsValue) ==
    IF ~hasTime \/ sigma <= 0
    THEN RMax(RInt(0), IF type = "call" THEN RSub(S, K) ELSE RSub(K, S))
    ELSE bsValue

\* part_002:202-213 and 215-226: the target, the strike and the returned
\* object for the symbol's entry conf and the resolved expiry
contractFor(conf, resolvedExpiry, side, underlyingPrice, targetOtmPct) ==
    [strike |-> IF side = "call"
                THEN ceilStrike(targetDouble(side, underlyingPrice, targetOtmPct,
                                    RMul(underlyingPrice, RAdd(RInt(1), targetOtmPct))),
                                Cents(conf.strikeIncrement))
                ELSE floorStrike(targetDouble(side, underlyingPrice, targetOtmPct,
                                    RMul(underlyingPrice, RSub(RInt(1), targetOtmPct))),
                                 Cents(conf.strikeIncrement)),
     expiry |-> formatExpiryISO(resolvedExpiry.date),
     strikeIncrement |-> Cents(conf.strikeIncrement),
     multiplier |-> conf.multiplier, expiryType |-> resolvedExpiry.effectiveType,
     otmPctUsed |-> targetOtmPct]

\* pickContract going on with an empty entry for a symbol without one, as
\* resolveExpiryDate does: increment 1, multiplier 100, 2% out of the money.
pickContract_defaulting(symbol, side, underlyingPrice, otmPct, minBusinessDays, expiryType, now, tz) ==
    contractFor(IF HasConfig(symbol) THEN OPTION_CONFIG[symbol]
                ELSE [multiplier |-> 100, strikeIncrement |-> 100, defaultOTMPct |-> 20],
                resolveExpiryDate(symbol, expiryType, minBusinessDays, <<>>, now, tz),
                side, underlyingPrice,
                IF otmPct # <<>> THEN otmPct[1]
                ELSE IF HasConfig(symbol) THEN Rat(OPTION_CONFIG[symbol].defaultOTMPct, 1000)
                ELSE Rat(20, 1000))

\* part_002:193-227 without an expiry override; otmPct is <<>> (null) or
\* <<fraction>>.  The throw for a symbol without entry is the first statement.
pickContract(symbol, side, underlyingPrice, otmPct, minBusinessDays, expiryType, now, tz) ==
    IF ~HasConfig(symbol)
    THEN [error |-> "Unsupported symbol for options config"]
    ELSE contractFor(OPTION_CONFIG[symbol],
                     resolveExpiryDate(symbol, expiryType, minBusinessDays, <<>>, now, tz),
                     side, underlyingPrice,
                     IF otmPct # <<>> THEN otmPct[1]
                     ELSE Rat(OPTION_CONFIG[symbol].defaultOTMPct, 1000))

\* part_002:257-258 and 269-297, the fields the callers read: the prices of
\* the returned object from the Black-Scholes entry.  entry_source is not set
\* here (none).
pricedSuggestion(a, base, entry) ==
    [strike |-> base.strike, expiry |-> base.expiry, multiplier |-> base.multiplier,
     expiry_type |-> base.expiryType, target_otm_pct |-> base.otmPctUsed,
     est_entry |-> ToFixed2(entry, a.tieUp),
     stop |-> ToFixed2(RMax(Cents(1), RMul(entry, RSub(RInt(1), a.stopLossPct))), a.tieUp),
     take_profit |-> ToFixed2(RMul(entry, RAdd(RInt(1), a.takeProfitMult)), a.tieUp),
     entry_source |-> "none"]

\* part_002:251-256: the time to the expiry, taken as 20:00 UTC of its day,
\* and the entry price for it
suggestionForContract(a, base, now) ==
    IF "error" \in DOMAIN base THEN base
    ELSE pricedSuggestion(a, base,
            bsOptionPrice(a.underlyingPrice, base.strike, UtcMidnight(base.expiry) + 20 > now,
                          a.iv, a.side, a.bsValue))

\* part_002:234-298 for the default direction 'long', which is what every
\* caller leaves it at; pickContract's throw leaves buildSuggestion
buildSuggestion(a, now, tz) ==
    suggestionForContract(a,
        pickContract(a.symbol, a.side, a.underlyingPrice, a.otmPct,
                     a.minBusinessDays, a.expiryType, now, tz),
        now)

---------------------------------------------------------------------------
(* ChainProvider: src/providers/options-chain.js fetchOptionChain           *)

minContracts == 4

\* options-chain.js:159-190 with prefer 'etrade'.  etradeOut and fmpOut are
\* what fetchEtradeChain and fetchFmpChain do: <<>> when the call throws
\* (no credentials, a network error or time-out, a non-2xx answer), <<chain>>
\* when it resolves to the normalized chain.  An error is recorded and the
\* next provider tried; nothing is thrown to the caller.
fetchOptionChain(etradeOut, fmpOut) ==
    LET attempts == (IF etradeOut # <<>> THEN <<"etrade">> ELSE <<>>)
                    \o (IF fmpOut # <<>> THEN <<"fmp">> ELSE <<>>)
    IN  IF etradeOut # <<>> /\ Len(etradeOut[1]) >= minContracts
        THEN [source |-> <<"etrade">>, options |-> etradeOut[1]]
        ELSE IF fmpOut # <<>> /\ Len(fmpOut[1]) >= minContracts
        THEN [source |-> <<"fmp">>, options |-> fmpOut[1]]
        ELSE [source |-> IF attempts = <<>> THEN <<>> ELSE <<attempts[1]>>,
              options |-> <<>>]

---------------------------------------------------------------------------
(* The other selectors of strategy/selector: pickByDelta, pickByPremium     *)

\* pickByDelta's for loop; targetDelta and the deltas in hundredths
RECURSIVE byDeltaLoop(_, _, _, _, _)
byDeltaLoop(options, type, target, i, best) ==
    IF i > Len(options) THEN best
    ELSE LET q == options[i]
         IN  IF q.type # type \/ ~IsNum(q.delta)
             THEN byDeltaLoop(options, type, target, i + 1, best)
             ELSE byDeltaLoop(options, type, target, i + 1,
                     IF best = <<>> \/ Abs(q.delta - target) < Abs(best[1].opt.delta - target)
                     THEN <<[opt |-> q]>> ELSE best)

\* market-snapshot-feeder.js:574-586
pickByDelta(options, side, targetDelta) ==
    LET type == TypeOfSide(side)
        target == IF type = "PUT" THEN -Abs(targetDelta) ELSE Abs(targetDelta)
    IN  byDeltaLoop(options, type, target, 1, <<>>)

\* pickByPremium's for loop; targetPremium in dollars
RECURSIVE byPremiumLoop(_, _, _, _, _)
byPremiumLoop(options, type, targetPremium, i, best) ==
    IF i > Len(options) THEN best
    ELSE LET q == options[i]
             m == midPrice(q)
         IN  IF q.type # type \/ m = <<>>
             THEN byPremiumLoop(options, type, targetPremium, i + 1, best)
             ELSE byPremiumLoop(options, type, targetPremium, i + 1,
                     IF best = <<>> \/
                        RLt(RAbs(RSub(m[1], targetPremium)),
                            RAbs(RSub(midPrice(best[1].opt)[1], targetPremium)))
                     THEN <<[opt |-> q]>> ELSE best)

\* market-snapshot-feeder.js:588-599
pickByPremium(options, side, targetPremium) ==
    byPremiumLoop(options, TypeOfSide(side), targetPremium, 1, <<>>)

---------------------------------------------------------------------------
(* The callers: analyzeSymbol (src/cli/ai-agent.js), suggestOne             *)
(* (src/cli/suggest.js), makeSuggestion (src/runner/market-open-feeder.js)  *)

\* ai-agent.js:372-377: a day trade tightens the stop and the target; the
\* other callers pass their parameters on
adjustedParams(a) ==
    IF a.caller = "ai-agent" /\ a.strategy = "day_trade"
    THEN [otmPct |-> <<Rat(1, 100)>>, stopLossPct |-> Rat(1, 5),
          takeProfitMult |-> Rat(3, 2)]
    ELSE [otmPct |-> a.otmPct, stopLossPct |-> a.stopLossPct,
          takeProfitMult |-> a.takeProfitMult]

\* The argument object of the caller's buildSuggestion call
\* (ai-agent.js:393-405, suggest.js:65-76, market-open-feeder.js:414-426)
SuggestionArgs(a) ==
    [symbol |-> a.symbol, side |-> a.side, underlyingPrice |-> a.price,
     iv |-> a.iv, bsValue |-> a.bsValue, otmPct |-> adjustedParams(a).otmPct,
     minBusinessDays |-> a.minBusinessDays, expiryType |-> a.expiryType,
     stopLossPct |-> adjustedParams(a).stopLossPct,
     takeProfitMult |-> adjustedParams(a).takeProfitMult, tieUp |-> a.tieUp]

\* The thresholds of the caller's selectOptimalOption call
\* (ai-agent.js:443-447, suggest.js:89-94, market-open-feeder.js:443-448)
OptimalOpts(a) ==
    [targetDelta |-> IF a.side = "put" THEN -35 ELSE 35,
     maxSpreadPct |-> IF a.caller = "ai-agent" /\ a.strategy = "day_trade" THEN 30 ELSE 40,
     minOpenInterest |-> IF a.caller = "market-open-feeder" THEN 100
                         ELSE IF a.caller = "ai-agent" /\ a.strategy = "day_trade" THEN 150
                         ELSE 75]

\* Where a caller goes once the chain is there: makeSuggestion has the
\* target-delta and target-premium picks of market-open-feeder.js:439-441.
afterFetch(caller) == IF caller = "market-open-feeder" THEN "target" ELSE "optimal"

\* "if (!candidate)" before a fallback selector, run whatever the candidate.
needsFallback_always(cand) == TRUE

\* "if (!candidate)" before a fallback selector
needsFallback(cand) == cand = <<>>

\* The candidate's prices written over the suggestion's (ai-agent.js:452-503,
\* suggest.js:98-129, market-open-feeder.js:454-485).  The quotes are
\* normalized, so midPrice is null only when bid, ask and last all are, and
\* the entry price is finite exactly when midPrice is not null.
applyCandidate(s, cand, source, stopLossPct, takeProfitMult, tieUp) ==
    IF cand = <<>> THEN s
    ELSE LET q == cand[1].opt
             mid == midPrice(q)
             s1 == [s EXCEPT !.strike = q.strike]
         IN  IF mid # <<>>
             THEN [s1 EXCEPT
                     !.est_entry = ToFixed2(mid[1], tieUp),
                     !.stop = ToFixed2(RMul(mid[1], RSub(RInt(1), stopLossPct)), tieUp),
                     !.take_profit = ToFixed2(RMul(mid[1], RAdd(RInt(1), takeProfitMult)), tieUp),
                     !.entry_source = IF source # <<>> THEN source[1] \o "_chain"
                                      ELSE "options_chain"]
             ELSE [s1 EXCEPT !.entry_source = "model_chain_fallback"]

\* The step after the try block, left out.
markModelSource_skipped(s, live) == s

\* if (!liveOption) suggestion.entry_source = 'model'
\* (ai-agent.js:508-509, suggest.js:136-138, market-open-feeder.js:493-495)
markModelSource(s, live) ==
    IF live = <<>> THEN [s EXCEPT !.entry_source = "model"] ELSE s

\* The argument object of the caller's computeQty call (ai-agent.js:525-532,
\* suggest.js:140, market-open-feeder.js:497); only analyzeSymbol passes a
\* strategy, nobody passes maxContracts.
SizingArgs(a, s) ==
    [accountSize |-> a.account, riskPct |-> a.riskPct, entry |-> s.est_entry,
     stop |-> s.stop, multiplier |-> s.multiplier,
     maxContracts |-> DefaultMaxContracts,
     strategy |-> IF a.caller = "ai-agent" THEN a.strategy ELSE "default"]

---------------------------------------------------------------------------
(* OptionPricer: strategy/options bsOptionPrice *)

\* The call's arguments: S and K in whole dollars, T as days out of 365,
\* sigma and r in percent.  The number returned is kept as its value rounded
\* to the cent (what the callers keep of it) and the sign of the double.
\*
\* Math.log, Math.exp, Math.sqrt and the polynomial of erf are not rational:
\* for the arguments drawn below the double the code computes is tabulated,
\* <<S, K, days, sigma, r, type, cents, sign>>, from the same IEEE-754
\* operations in the same order.  Far out of the money 1 - (...) * exp(-x*x)
\* in erf rounds to a multiple of 2^-53, normCdf(d1) and normCdf(d2) come out
\* as the same few multiples of 2^-54, and the difference S * normCdf(d1) -
\* K * exp(-r*T) * normCdf(d2) takes the sign of S - K * exp(-r*T).
BlackScholesDoubles ==
    {
      <<100, 75, 5, 20, 0, "call", 2500, 1>>, <<100, 75, 5, 20, 0, "put", 0, 0>>,
      <<100, 75, 5, 20, 1, "call", 2501, 1>>, <<100, 75, 5, 20, 1, "put", 0, 0>>,
      <<100, 75, 5, 50, 0, "call", 2500, 1>>, <<100, 75, 5, 50, 0, "put", 0, 1>>,
      <<100, 75, 5, 50, 1, "call", 2501, 1>>, <<100, 75, 5, 50, 1, "put", 0, 1>>,
      <<100, 75, 7, 20, 0, "call", 2500, 1>>, <<100, 75, 7, 20, 0, "put", 0, 0>>,
      <<100, 75, 7, 20, 1, "call", 2501, 1>>, <<100, 75, 7, 20, 1, "put", 0, 0>>,
      <<100, 75, 7, 50, 0, "call", 2500, 1>>, <<100, 75, 7, 50, 0, "put", 0, 1>>,
      <<100, 75, 7, 50, 1, "call", 2501, 1>>, <<100, 75, 7, 50, 1, "put", 0, 1>>,
      <<100, 75, 14, 20, 0, "call", 2500, 1>>, <<100, 75, 14, 20, 0, "put", 0, 1>>,
      <<100, 75, 14, 20, 1, "call", 2503, 1>>, <<100, 75, 14, 20, 1, "put", 0, 1>>,
      <<100, 75, 14, 50, 0, "call", 2500, 1>>, <<100, 75, 14, 50, 0, "put", 0, 1>>,
      <<100, 75, 14, 50, 1, "call", 2503, 1>>, <<100, 75, 14, 50, 1, "put", 0, 1>>,
      <<100, 83, 5, 20, 0, "call", 1700, 1>>, <<100, 83, 5, 20, 0, "put", 0, 1>>,
      <<100, 83, 5, 20, 1, "call", 1701, 1>>, <<100, 83, 5, 20, 1, "put", 0, -1>>,
      <<100, 83, 5, 50, 0, "call", 1700, 1>>, <<100, 83, 5, 50, 0, "put", 0, 1>>,
      <<100, 83, 5, 50, 1, "call", 1701, 1>>, <<100, 83, 5, 50, 1, "put", 0, 1>>,
      <<100, 83, 7, 20, 0, "call", 1700, 1>>, <<100, 83, 7, 20, 0, "put", 0, 1>>,
      <<100, 83, 7, 20, 1, "call", 1702, 1>>, <<100, 83, 7, 20, 1, "put", 0, 1>>,
      <<100, 83, 7, 50, 0, "call", 1701, 1>>, <<100, 83, 7, 50, 0, "put", 1, 1>>,
      <<100, 83, 7, 50, 1, "call", 1702, 1>>, <<100, 83, 7, 50, 1, "put", 1, 1>>,
      <<100, 83, 14, 20, 0, "call", 1700, 1>>, <<100, 83, 14, 20, 0, "put", 0, 1>>,
      <<100, 83, 14, 20, 1, "call", 1703, 1>>, <<100, 83, 14, 20, 1, "put", 0, 1>>,
      <<100, 83, 14, 50, 0, "call", 1710, 1>>, <<100, 83, 14, 50, 0, "put", 10, 1>>,
      <<100, 83, 14, 50, 1, "call", 1713, 1>>, <<100, 83, 14, 50, 1, "put", 10, 1>>,
      <<100, 95, 5, 20, 0, "call", 501, 1>>, <<100, 95, 5, 20, 0, "put", 1, 1>>,
      <<100, 95, 5, 20, 1, "call", 502, 1>>, <<100, 95, 5, 20, 1, "put", 1, 1>>,
      <<100, 95, 5, 50, 0, "call", 560, 1>>, <<100, 95, 5, 50, 0, "put", 60, 1>>,
      <<100, 95, 5, 50, 1, "call", 561, 1>>, <<100, 95, 5, 50, 1, "put", 60, 1>>,
      <<100, 95, 7, 20, 0, "call", 503, 1>>, <<100, 95, 7, 20, 0, "put", 3, 1>>,
      <<100, 95, 7, 20, 1, "call", 505, 1>>, <<100, 95, 7, 20, 1, "put", 3, 1>>,
      <<100, 95, 7, 50, 0, "call", 590, 1>>, <<100, 95, 7, 50, 0, "put", 90, 1>>,
      <<100, 95, 7, 50, 1, "call", 591, 1>>, <<100, 95, 7, 50, 1, "put", 89, 1>>,
      <<100, 95, 14, 20, 0, "call", 517, 1>>, <<100, 95, 14, 20, 0, "put", 17, 1>>,
      <<100, 95, 14, 20, 1, "call", 520, 1>>, <<100, 95, 14, 20, 1, "put", 17, 1>>,
      <<100, 95, 14, 50, 0, "call", 682, 1>>, <<100, 95, 14, 50, 0, "put", 182, 1>>,
      <<100, 95, 14, 50, 1, "call", 684, 1>>, <<100, 95, 14, 50, 1, "put", 181, 1>>,
      <<100, 100, 5, 20, 0, "call", 93, 1>>, <<100, 100, 5, 20, 0, "put", 93, 1>>,
      <<100, 100, 5, 20, 1, "call", 94, 1>>, <<100, 100, 5, 20, 1, "put", 93, 1>>,
      <<100, 100, 5, 50, 0, "call", 233, 1>>, <<100, 100, 5, 50, 0, "put", 233, 1>>,
      <<100, 100, 5, 50, 1, "call", 234, 1>>, <<100, 100, 5, 50, 1, "put", 233, 1>>,
      <<100, 100, 7, 20, 0, "call", 110, 1>>, <<100, 100, 7, 20, 0, "put", 110, 1>>,
      <<100, 100, 7, 20, 1, "call", 111, 1>>, <<100, 100, 7, 20, 1, "put", 110, 1>>,
      <<100, 100, 7, 50, 0, "call", 276, 1>>, <<100, 100, 7, 50, 0, "put", 276, 1>>,
      <<100, 100, 7, 50, 1, "call", 277, 1>>, <<100, 100, 7, 50, 1, "put", 275, 1>>,
      <<100, 100, 14, 20, 0, "call", 156, 1>>, <<100, 100, 14, 20, 0, "put", 156, 1>>,
      <<100, 100, 14, 20, 1, "call", 158, 1>>, <<100, 100, 14, 20, 1, "put", 154, 1>>,
      <<100, 100, 14, 50, 0, "call", 391, 1>>, <<100, 100, 14, 50, 0, "put", 391, 1>>,
      <<100, 100, 14, 50, 1, "call", 392, 1>>, <<100, 100, 14, 50, 1, "put", 389, 1>>,
      <<100, 105, 5, 20, 0, "call", 2, 1>>, <<100, 105, 5, 20, 0, "put", 502, 1>>,
      <<100, 105, 5, 20, 1, "call", 2, 1>>, <<100, 105, 5, 20, 1, "put", 500, 1>>,
      <<100, 105, 5, 50, 0, "call", 68, 1>>, <<100, 105, 5, 50, 0, "put", 568, 1>>,
      <<100, 105, 5, 50, 1, "call", 68, 1>>, <<100, 105, 5, 50, 1, "put", 567, 1>>,
      <<100, 105, 7, 20, 0, "call", 4, 1>>, <<100, 105, 7, 20, 0, "put", 504, 1>>,
      <<100, 105, 7, 20, 1, "call", 5, 1>>, <<100, 105, 7, 20, 1, "put", 503, 1>>,
      <<100, 105, 7, 50, 0, "call", 101, 1>>, <<100, 105, 7, 50, 0, "put", 601, 1>>,
      <<100, 105, 7, 50, 1, "call", 101, 1>>, <<100, 105, 7, 50, 1, "put", 599, 1>>,
      <<100, 105, 14, 20, 0, "call", 20, 1>>, <<100, 105, 14, 20, 0, "put", 520, 1>>,
      <<100, 105, 14, 20, 1, "call", 21, 1>>, <<100, 105, 14, 20, 1, "put", 517, 1>>,
      <<100, 105, 14, 50, 0, "call", 199, 1>>, <<100, 105, 14, 50, 0, "put", 699, 1>>,
      <<100, 105, 14, 50, 1, "call", 200, 1>>, <<100, 105, 14, 50, 1, "put", 696, 1>>,
      <<100, 125, 5, 20, 0, "call", 0, 0>>, <<100, 125, 5, 20, 0, "put", 2500, 1>>,
      <<100, 125, 5, 20, 1, "call", 0, 0>>, <<100, 125, 5, 20, 1, "put", 2498, 1>>,
      <<100, 125, 5, 50, 0, "call", 0, 1>>, <<100, 125, 5, 50, 0, "put", 2500, 1>>,
      <<100, 125, 5, 50, 1, "call", 0, 1>>, <<100, 125, 5, 50, 1, "put", 2498, 1>>,
      <<100, 125, 7, 20, 0, "call", 0, 1>>, <<100, 125, 7, 20, 0, "put", 2500, 1>>,
      <<100, 125, 7, 20, 1, "call", 0, -1>>, <<100, 125, 7, 20, 1, "put", 2498, 1>>,
      <<100, 125, 7, 50, 0, "call", 0, 1>>, <<100, 125, 7, 50, 0, "put", 2500, 1>>,
      <<100, 125, 7, 50, 1, "call", 0, 1>>, <<100, 125, 7, 50, 1, "put", 2498, 1>>,
      <<100, 125, 14, 20, 0, "call", 0, 1>>, <<100, 125, 14, 20, 0, "put", 2500, 1>>,
      <<100, 125, 14, 20, 1, "call", 0, 1>>, <<100, 125, 14, 20, 1, "put", 2495, 1>>,
      <<100, 125, 14, 50, 0, "call", 4, 1>>, <<100, 125, 14, 50, 0, "put", 2504, 1>>,
      <<100, 125, 14, 50, 1, "call", 4, 1>>, <<100, 125, 14, 50, 1, "put", 2500, 1>>,
      <<100, 138, 5, 20, 0, "call", 0, 0>>, <<100, 138, 5, 20, 0, "put", 3800, 1>>,
      <<100, 138, 5, 20, 1, "call", 0, 0>>, <<100, 138, 5, 20, 1, "put", 3798, 1>>,
      <<100, 138, 5, 50, 0, "call", 0, 1>>, <<100, 138, 5, 50, 0, "put", 3800, 1>>,
      <<100, 138, 5, 50, 1, "call", 0, 1>>, <<100, 138, 5, 50, 1, "put", 3798, 1>>,
      <<100, 138, 7, 20, 0, "call", 0, 0>>, <<100, 138, 7, 20, 0, "put", 3800, 1>>,
      <<100, 138, 7, 20, 1, "call", 0, 0>>, <<100, 138, 7, 20, 1, "put", 3797, 1>>,
      <<100, 138, 7, 50, 0, "call", 0, 1>>, <<100, 138, 7, 50, 0, "put", 3800, 1>>,
      <<100, 138, 7, 50, 1, "call", 0, 1>>, <<100, 138, 7, 50, 1, "put", 3797, 1>>,
      <<100, 138, 14, 20, 0, "call", 0, -1>>, <<100, 138, 14, 20, 0, "put", 3800, 1>>,
      <<100, 138, 14, 20, 1, "call", 0, -1>>, <<100, 138, 14, 20, 1, "put", 3795, 1>>,
      <<100, 138, 14, 50, 0, "call", 0, 1>>, <<100, 138, 14, 50, 0, "put", 3800, 1>>,
      <<100, 138, 14, 50, 1, "call", 0, 1>>, <<100, 138, 14, 50, 1, "put", 3795, 1>>,
      <<500, 375, 5, 20, 0, "call", 12500, 1>>, <<500, 375, 5, 20, 0, "put", 0, 0>>,
      <<500, 375, 5, 20, 1, "call", 12505, 1>>, <<500, 375, 5, 20, 1, "put", 0, 0>>,
      <<500, 375, 5, 50, 0, "call", 12500, 1>>, <<500, 375, 5, 50, 0, "put", 0, 1>>,
      <<500, 375, 5, 50, 1, "call", 12505, 1>>, <<500, 375, 5, 50, 1, "put", 0, 1>>,
      <<500, 375, 7, 20, 0, "call", 12500, 1>>, <<500, 375, 7, 20, 0, "put", 0, 0>>,
      <<500, 375, 7, 20, 1, "call", 12507, 1>>, <<500, 375, 7, 20, 1, "put", 0, 0>>,
      <<500, 375, 7, 50, 0, "call", 12500, 1>>, <<500, 375, 7, 50, 0, "put", 0, 1>>,
      <<500, 375, 7, 50, 1, "call", 12507, 1>>, <<500, 375, 7, 50, 1, "put", 0, 1>>,
      <<500, 375, 14, 20, 0, "call", 12500, 1>>, <<500, 375, 14, 20, 0, "put", 0, 1>>,
      <<500, 375, 14, 20, 1, "call", 12514, 1>>, <<500, 375, 14, 20, 1, "put", 0, 1>>,
      <<500, 375, 14, 50, 0, "call", 12502, 1>>, <<500, 375, 14, 50, 0, "put", 2, 1>>,
      <<500, 375, 14, 50, 1, "call", 12516, 1>>, <<500, 375, 14, 50, 1, "put", 2, 1>>,
      <<500, 415, 5, 20, 0, "call", 8500, 1>>, <<500, 415, 5, 20, 0, "put", 0, 1>>,
      <<500, 415, 5, 20, 1, "call", 8506, 1>>, <<500, 415, 5, 20, 1, "put", 0, -1>>,
      <<500, 415, 5, 50, 0, "call", 8501, 1>>, <<500, 415, 5, 50, 0, "put", 1, 1>>,
      <<500, 415, 5, 50, 1, "call", 8506, 1>>, <<500, 415, 5, 50, 1, "put", 1, 1>>,
      <<500, 415, 7, 20, 0, "call", 8500, 1>>, <<500, 415, 7, 20, 0, "put", 0, 1>>,
      <<500, 415, 7, 20, 1, "call", 8508, 1>>, <<500, 415, 7, 20, 1, "put", 0, 1>>,
      <<500, 415, 7, 50, 0, "call", 8503, 1>>, <<500, 415, 7, 50, 0, "put", 3, 1>>,
      <<500, 415, 7, 50, 1, "call", 8511, 1>>, <<500, 415, 7, 50, 1, "put", 3, 1>>,
      <<500, 415, 14, 20, 0, "call", 8500, 1>>, <<500, 415, 14, 20, 0, "put", 0, 1>>,
      <<500, 415, 14, 20, 1, "call", 8516, 1>>, <<500, 415, 14, 20, 1, "put", 0, 1>>,
      <<500, 415, 14, 50, 0, "call", 8549, 1>>, <<500, 415, 14, 50, 0, "put", 49, 1>>,
      <<500, 415, 14, 50, 1, "call", 8564, 1>>, <<500, 415, 14, 50, 1, "put", 48, 1>>,
      <<500, 475, 5, 20, 0, "call", 2506, 1>>, <<500, 475, 5, 20, 0, "put", 6, 1>>,
      <<500, 475, 5, 20, 1, "call", 2512, 1>>, <<500, 475, 5, 20, 1, "put", 6, 1>>,
      <<500, 475, 5, 50, 0, "call", 2799, 1>>, <<500, 475, 5, 50, 0, "put", 299, 1>>,
      <<500, 475, 5, 50, 1, "call", 2804, 1>>, <<500, 475, 5, 50, 1, "put", 298, 1>>,
      <<500, 475, 7, 20, 0, "call", 2517, 1>>, <<500, 475, 7, 20, 0, "put", 17, 1>>,
      <<500, 475, 7, 20, 1, "call", 2526, 1>>, <<500, 475, 7, 20, 1, "put", 17, 1>>,
      <<500, 475, 7, 50, 0, "call", 2950, 1>>, <<500, 475, 7, 50, 0, "put", 450, 1>>,
      <<500, 475, 7, 50, 1, "call", 2956, 1>>, <<500, 475, 7, 50, 1, "put", 447, 1>>,
      <<500, 475, 14, 20, 0, "call", 2585, 1>>, <<500, 475, 14, 20, 0, "put", 85, 1>>,
      <<500, 475, 14, 20, 1, "call", 2602, 1>>, <<500, 475, 14, 20, 1, "put", 83, 1>>,
      <<500, 475, 14, 50, 0, "call", 3409, 1>>, <<500, 475, 14, 50, 0, "put", 909, 1>>,
      <<500, 475, 14, 50, 1, "call", 3421, 1>>, <<500, 475, 14, 50, 1, "put", 903, 1>>,
      <<500, 500, 5, 20, 0, "call", 467, 1>>, <<500, 500, 5, 20, 0, "put", 467, 1>>,
      <<500, 500, 5, 20, 1, "call", 470, 1>>, <<500, 500, 5, 20, 1, "put", 463, 1>>,
      <<500, 500, 5, 50, 0, "call", 1167, 1>>, <<500, 500, 5, 50, 0, "put", 1167, 1>>,
      <<500, 500, 5, 50, 1, "call", 1171, 1>>, <<500, 500, 5, 50, 1, "put", 1164, 1>>,
      <<500, 500, 7, 20, 0, "call", 552, 1>>, <<500, 500, 7, 20, 0, "put", 552, 1>>,
      <<500, 500, 7, 20, 1, "call", 557, 1>>, <<500, 500, 7, 20, 1, "put", 548, 1>>,
      <<500, 500, 7, 50, 0, "call", 1381, 1>>, <<500, 500, 7, 50, 0, "put", 1381, 1>>,
      <<500, 500, 7, 50, 1, "call", 1386, 1>>, <<500, 500, 7, 50, 1, "put", 1376, 1>>,
      <<500, 500, 14, 20, 0, "call", 781, 1>>, <<500, 500, 14, 20, 0, "put", 781, 1>>,
      <<500, 500, 14, 20, 1, "call", 791, 1>>, <<500, 500, 14, 20, 1, "put", 772, 1>>,
      <<500, 500, 14, 50, 0, "call", 1953, 1>>, <<500, 500, 14, 50, 0, "put", 1953, 1>>,
      <<500, 500, 14, 50, 1, "call", 1962, 1>>, <<500, 500, 14, 50, 1, "put", 1943, 1>>,
      <<500, 525, 5, 20, 0, "call", 8, 1>>, <<500, 525, 5, 20, 0, "put", 2508, 1>>,
      <<500, 525, 5, 20, 1, "call", 8, 1>>, <<500, 525, 5, 20, 1, "put", 2501, 1>>,
      <<500, 525, 5, 50, 0, "call", 339, 1>>, <<500, 525, 5, 50, 0, "put", 2839, 1>>,
      <<500, 525, 5, 50, 1, "call", 341, 1>>, <<500, 525, 5, 50, 1, "put", 2834, 1>>,
      <<500, 525, 7, 20, 0, "call", 22, 1>>, <<500, 525, 7, 20, 0, "put", 2522, 1>>,
      <<500, 525, 7, 20, 1, "call", 23, 1>>, <<500, 525, 7, 20, 1, "put", 2513, 1>>,
      <<500, 525, 7, 50, 0, "call", 503, 1>>, <<500, 525, 7, 50, 0, "put", 3003, 1>>,
      <<500, 525, 7, 50, 1, "call", 505, 1>>, <<500, 525, 7, 50, 1, "put", 2995, 1>>,
      <<500, 525, 14, 20, 0, "call", 102, 1>>, <<500, 525, 14, 20, 0, "put", 2602, 1>>,
      <<500, 525, 14, 20, 1, "call", 105, 1>>, <<500, 525, 14, 20, 1, "put", 2584, 1>>,
      <<500, 525, 14, 50, 0, "call", 994, 1>>, <<500, 525, 14, 50, 0, "put", 3494, 1>>,
      <<500, 525, 14, 50, 1, "call", 1000, 1>>, <<500, 525, 14, 50, 1, "put", 3480, 1>>,
      <<500, 625, 5, 20, 0, "call", 0, 0>>, <<500, 625, 5, 20, 0, "put", 12500, 1>>,
      <<500, 625, 5, 20, 1, "call", 0, 0>>, <<500, 625, 5, 20, 1, "put", 12491, 1>>,
      <<500, 625, 5, 50, 0, "call", 0, 1>>, <<500, 625, 5, 50, 0, "put", 12500, 1>>,
      <<500, 625, 5, 50, 1, "call", 0, 1>>, <<500, 625, 5, 50, 1, "put", 12491, 1>>,
      <<500, 625, 7, 20, 0, "call", 0, 1>>, <<500, 625, 7, 20, 0, "put", 12500, 1>>,
      <<500, 625, 7, 20, 1, "call", 0, -1>>, <<500, 625, 7, 20, 1, "put", 12488, 1>>,
      <<500, 625, 7, 50, 0, "call", 1, 1>>, <<500, 625, 7, 50, 0, "put", 12501, 1>>,
      <<500, 625, 7, 50, 1, "call", 1, 1>>, <<500, 625, 7, 50, 1, "put", 12489, 1>>,
      <<500, 625, 14, 20, 0, "call", 0, 1>>, <<500, 625, 14, 20, 0, "put", 12500, 1>>,
      <<500, 625, 14, 20, 1, "call", 0, 1>>, <<500, 625, 14, 20, 1, "put", 12476, 1>>,
      <<500, 625, 14, 50, 0, "call", 21, 1>>, <<500, 625, 14, 50, 0, "put", 12521, 1>>,
      <<500, 625, 14, 50, 1, "call", 22, 1>>, <<500, 625, 14, 50, 1, "put", 12498, 1>>,
      <<500, 690, 5, 20, 0, "call", 0, 0>>, <<500, 690, 5, 20, 0, "put", 19000, 1>>,
      <<500, 690, 5, 20, 1, "call", 0, 0>>, <<500, 690, 5, 20, 1, "put", 18991, 1>>,
      <<500, 690, 5, 50, 0, "call", 0, 1>>, <<500, 690, 5, 50, 0, "put", 19000, 1>>,
      <<500, 690, 5, 50, 1, "call", 0, 1>>, <<500, 690, 5, 50, 1, "put", 18991, 1>>,
      <<500, 690, 7, 20, 0, "call", 0, 0>>, <<500, 690, 7, 20, 0, "put", 19000, 1>>,
      <<500, 690, 7, 20, 1, "call", 0, 0>>, <<500, 690, 7, 20, 1, "put", 18987, 1>>,
      <<500, 690, 7, 50, 0, "call", 0, 1>>, <<500, 690, 7, 50, 0, "put", 19000, 1>>,
      <<500, 690, 7, 50, 1, "call", 0, 1>>, <<500, 690, 7, 50, 1, "put", 18987, 1>>,
      <<500, 690, 14, 20, 0, "call", 0, -1>>, <<500, 690, 14, 20, 0, "put", 19000, 1>>,
      <<500, 690, 14, 20, 1, "call", 0, -1>>, <<500, 690, 14, 20, 1, "put", 18974, 1>>,
      <<500, 690, 14, 50, 0, "call", 1, 1>>, <<500, 690, 14, 50, 0, "put", 19001, 1>>,
      <<500, 690, 14, 50, 1, "call", 1, 1>>, <<500, 690, 14, 50, 1, "put", 18974, 1>> }

\* part_002:183, the degenerate branch: Math.max(0, S - K) or Math.max(0, K - S).
intrinsicValue(diff) ==
    [cents |-> IF diff > 0 THEN 100 * diff ELSE 0, sign |-> IF diff > 0 THEN 1 ELSE 0]

\* part_002:184-190, the Black-Scholes branch, as tabulated.
blackScholesRow(a) ==
    CHOOSE t \in BlackScholesDoubles :
        /\ t[1] = a.S /\ t[2] = a.K /\ t[3] = a.days
        /\ t[4] = a.sigma /\ t[5] = a.r /\ t[6] = a.type
blackScholesValue(t) == [cents |-> t[7], sign |-> t[8]]

\* part_002:181-191 with the doubles of the Black-Scholes branch filled in
\* (bsOptionPrice above takes that value as given).
bsOptionPriceDouble(a) ==
    IF a.days <= 0 \/ a.sigma <= 0
    THEN intrinsicValue(IF a.type = "call" THEN a.S - a.K ELSE a.K - a.S)
    ELSE blackScholesValue(blackScholesRow(a))

---------------------------------------------------------------------------
(* Dashboard server: src/ui/server.js triggerScan, scheduleNextScan and the  *)
(* scan endpoints.  A handler runs without interruption up to its first      *)
(* await, so each action below is one such stretch.                          *)

ConfigUpdateDelay == 1500     \* server.js:599 and 601, ms
ListenDelay == 1000           \* server.js:1530, ms
DefaultIntervalMs == 120000   \* server.js:442, AGENT_INTERVAL_MS when the environment has none

\* The timer state the scheduling functions work on.
TimerState(handle, pending) == [scanTimer |-> handle, timers |-> pending]

\* The handle setTimeout returns: a number no pending or remembered timer has.
RECURSIVE FreshTimerId(_, _)
FreshTimerId(tm, i) ==
    IF i \in {t.id : t \in tm.timers} \/ tm.scanTimer = <<i>>
    THEN FreshTimerId(tm, i + 1) ELSE i

\* server.js:1511-1516.  clearTimeout of a timer that has fired does nothing.
clearPendingTimer(tm) ==
    IF tm.scanTimer # <<>>
    THEN TimerState(<<>>, {t \in tm.timers : t.id # tm.scanTimer[1]})
    ELSE tm

\* setTimeout(..., delayMs) and the assignment to scanTimer, server.js:1504.
setScanTimer(tm, delayMs) ==
    TimerState(<<FreshTimerId(tm, 1)>>,
               tm.timers \cup {[id |-> FreshTimerId(tm, 1), delay |-> delayMs]})

\* scheduleNextScan without the clearPendingTimer() of line 1503.
scheduleNextScan_noClear(tm, delayMs) ==
    IF delayMs <= 0 THEN tm ELSE setScanTimer(tm, delayMs)

\* server.js:1498-1509 for a delay that is a number.
scheduleNextScan(tm, delayMs) ==
    IF delayMs <= 0 THEN tm ELSE setScanTimer(clearPendingTimer(tm), delayMs)

\* The guard of triggerScan never closing.
scanInProgress_never(flag) == FALSE

\* server.js:1304, the guard of triggerScan.
scanInProgress(flag) == flag

\* server.js:1308-1328: what a scan keeps of the state it started in.  The
\* symbols and the strategy are read from scanConfig once, here.
startedScan(id, source, config, providers) ==
    [id |-> id, source |-> source, config |-> config, left |-> providers,
     summaries |-> 0, errors |-> 0]

\* server.js:1337-1403, one turn of the provider loop: execAsync resolves
\* ("ok"), rejects ("fail", caught per provider), or something outside the
\* inner try throws ("throw": the outer catch logs a system error and the
\* loop is over).
afterProviderRun(sc, outcome) ==
    CASE outcome = "ok"   -> [sc EXCEPT !.left = @ - 1, !.summaries = @ + 1]
      [] outcome = "fail" -> [sc EXCEPT !.left = @ - 1, !.errors = @ + 1]
      [] OTHER            -> [sc EXCEPT !.left = 0, !.errors = @ + 1]

\* server.js:1406-1487 with the failure branch storing its results too.
resultsAfter_always(sc, before) ==
    <<[scan |-> sc.id, config |-> sc.config, source |-> sc.source,
       runs |-> sc.summaries, errors |-> sc.errors]>>

\* server.js:1406-1487, latestResults after the scan: untouched when no
\* provider run succeeded.
resultsAfter(sc, before) ==
    IF sc.summaries = 0 THEN before
    ELSE <<[scan |-> sc.id, config |-> sc.config, source |-> sc.source,
            runs |-> sc.summaries, errors |-> sc.errors]>>

\* server.js:1408-1419 and 1473-1484.
metaAfter(sc) ==
    <<[scan |-> sc.id, source |-> sc.source, success |-> sc.summaries > 0,
       config |-> sc.config, errors |-> sc.errors]>>

\* server.js:1420-1425 and 1485.
errorAfter(sc) ==
    IF sc.summaries = 0 THEN <<"All AI provider scans failed">>
    ELSE IF sc.errors > 0 THEN <<"One or more providers failed">>
    ELSE <<>>

\* server.js:1426 and 1486, what triggerScan returns; for a manual scan the
\* status POST /api/scan answers with (server.js:555-560).
scanResponse(sc) ==
    IF sc.summaries = 0
    THEN [source |-> sc.source, scan |-> sc.id, success |-> FALSE, status |-> 502,
          error |-> "All AI provider scans failed"]
    ELSE [source |-> sc.source, scan |-> sc.id, success |-> TRUE, status |-> 200,
          error |-> ""]

\* server.js:1305.
rejectedResponse(source) ==
    [source |-> source, scan |-> 0, success |-> FALSE, status |-> 409,
     error |-> "Scan already in progress"]

\* server.js:1489, the first statement of the finally block: the flag after
\* a scan, whatever its outcome.
flagAfterScan_kept(flag) == flag
flagAfterScan(flag) == FALSE

\* server.js:1490 with the override ignored.
nextDelay_noOverride(override, interval) == interval

\* server.js:1490.
nextDelay(override, interval) == IF override # <<>> THEN override[1] ELSE interval

---------------------------------------------------------------------------
(* Bars provider: src/providers/bars.js *)

CacheTtlMs == 20000       \* bars.js:51 and 103, 20_000 ms

\* bars.js:51 and 103: if (cached && (now - cached.at) < 20_000) return cached.data
cachedFresh_inclusive(entry, now) == entry # <<>> /\ now - entry[1].at <= CacheTtlMs
cachedFresh(entry, now) == entry # <<>> /\ now - entry[1].at < CacheTtlMs

\* bars.js:89 and 130: set(key, { at: now, data }), now being the Date.now()
\* taken when the fetch was called (lines 49 and 100).
cacheEntry_atCompletion(flight, settledAt) == <<[at |-> settledAt, data |-> flight.id]>>
cacheEntry(flight, settledAt) == <<[at |-> flight.at, data |-> flight.id]>>

\* bars.js:48 and 101, the cache keys of the checked fetches.
YahooKeys == {"SPY:1d:1m", "QQQ:1d:1m"}
FmpKeys == {"fmp:SPY:1min:60"}
BarKeys == {<<"cache", k>> : k \in YahooKeys} \cup {<<"fmpCache", k>> : k \in FmpKeys}

---------------------------------------------------------------------------
(* Feeder retry wrapper: src/runner/market-snapshot-feeder.js *)

MAX_RETRIES == 2          \* market-snapshot-feeder.js:20

\* The errors the wrapped calls throw: an Error without status (a network
\* failure, a body that does not parse) or one with the HTTP status of a
\* response that was not ok.
NoStatus == [status |-> <<>>]
HttpError(code) == [status |-> <<code>>]

\* market-snapshot-feeder.js:28-36
shouldRetryError_always(err) == TRUE
shouldRetryError(err) ==
    IF err.status # <<>>
    THEN err.status[1] >= 500 \/ err.status[1] = 429
    ELSE TRUE

\* market-snapshot-feeder.js:38-42, withRetries entered and fn called.
retryStarted ==
    [state |-> "calling", attempt |-> 0, calls |-> 1, errors |-> <<>>, thrown |-> <<>>]

\* market-snapshot-feeder.js:43-49, the catch block.
afterRejection(r, err, retries) ==
    IF r.attempt >= retries \/ ~shouldRetryError(err)
    THEN [r EXCEPT !.state = "thrown", !.errors = Append(@, err), !.thrown = <<err>>]
    ELSE [r EXCEPT !.state = "sleeping", !.errors = Append(@, err), !.attempt = @ + 1]

---------------------------------------------------------------------------
(* Bounds of the checked instances *)

MaxPriceCents == 6        \* entry, stop and take-profit premiums: 0..MaxPriceCents
MaxAccountSteps == 3      \* account sizes: 0, 500, ..., 500 * MaxAccountSteps
MaxContractsArg == 12     \* caller-supplied maxContracts: 0..MaxContractsArg, and the default
MaxQty == 12              \* quantities handed to buildScalingPlan: 0..MaxQty
MaxFetches == 3           \* fetch calls of the bars provider in a run
MaxScans == 2             \* scans the dashboard server starts in a run
MaxConfigUpdates == 2     \* accepted POST /api/scan/config updates in a run

Strategies == {"default", "day_trade", "swing_trade", "scalping", "hold"}
RiskPcts == {Pcm(k) : k \in {0, 100, 200, 500, 1000, 1500, 2000, 5000}}
AccountSizes == {RInt(500 * k) : k \in 0..MaxAccountSteps}
Prices == {Cents(c) : c \in 0..MaxPriceCents}

RiskArgs ==
    [accountSize : AccountSizes, riskPct : RiskPcts, entry : Prices, stop : Prices,
     multiplier : {1, DefaultMultiplier},
     maxContracts : {0, 1, 3, MaxContractsArg, DefaultMaxContracts},
     strategy : Strategies]

PlanArgs ==
    [qty : 0..MaxQty, entry : Prices, takeProfit : Prices, stop : Prices,
     tieUp : BOOLEAN]

\* Quotes as a chain may hold them, without the strike: the two quotes of the
\* spec's scenario, quotes with a field or all prices missing, a zero price,
\* a crossed market, a locked market, a wide one, and a wide one without
\* open interest and volume, which scores 0 as a call.
QuoteProfiles ==
    { [bid |-> 100, ask |-> 120, last |-> NoNum, delta |-> 35, oi |-> 500, vol |-> 300],
      [bid |-> 50, ask |-> 90, last |-> NoNum, delta |-> 20, oi |-> 50, vol |-> 10],
      [bid |-> NoNum, ask |-> NoNum, last |-> 80, delta |-> NoNum, oi |-> NoNum, vol |-> NoNum],
      [bid |-> NoNum, ask |-> NoNum, last |-> NoNum, delta |-> 35, oi |-> 500, vol |-> 300],
      [bid |-> 0, ask |-> 0, last |-> 0, delta |-> 35, oi |-> 0, vol |-> 0],
      [bid |-> 100, ask |-> 120, last |-> NoNum, delta |-> -35, oi |-> 500, vol |-> 300],
      [bid |-> 120, ask |-> 100, last |-> 110, delta |-> 35, oi |-> 500, vol |-> 300],
      [bid |-> NoNum, ask |-> 90, last |-> NoNum, delta |-> 30, oi |-> 50, vol |-> 10],
      [bid |-> 100, ask |-> 100, last |-> NoNum, delta |-> 35, oi |-> 500, vol |-> 1000],
      [bid |-> 10, ask |-> 200, last |-> NoNum, delta |-> -20, oi |-> 50, vol |-> 0],
      [bid |-> 10, ask |-> 200, last |-> NoNum, delta |-> -20, oi |-> NoNum, vol |-> NoNum] }

MaxChainLen == 3          \* quotes in a chain handed to the selector: 0..MaxChainLen
BaseStrike == 455         \* the strike of a chain's first quote, dollars

\* The quote of profile f and type t at place i of a chain: fetchEtradeChain
\* and fetchFmpChain sort by strike, so the strikes do not decrease.
QuoteAt(f, t, i) ==
    [strike |-> RInt(BaseStrike + 5 * ((i - 1) \div 2)), type |-> t,
     bid |-> f.bid, ask |-> f.ask, last |-> f.last, delta |-> f.delta,
     oi |-> f.oi, vol |-> f.vol]

\* Every profile as a call, and as a put those a put chain shows apart
\* from its price pattern (negative delta) and the scenario's first quote.
QuoteKinds ==
    (QuoteProfiles \X {"CALL"})
    \cup ({f \in QuoteProfiles : (f.delta < 0 /\ f.delta # NoNum) \/ (f.vol = 300 /\ f.bid = 100)}
            \X {"PUT"})

Chains(len) ==
    { [i \in 1..len |-> QuoteAt(c[i][1], c[i][2], i)] :
        c \in [1..len -> QuoteKinds] }

\* The thresholds the three callers pass (suggest, ai-agent day_trade, feeder).
SelectorOpts ==
    { [targetDelta |-> 35, maxSpreadPct |-> 40, minOpenInterest |-> 75],
      [targetDelta |-> 35, maxSpreadPct |-> 30, minOpenInterest |-> 150],
      [targetDelta |-> -35, maxSpreadPct |-> 40, minOpenInterest |-> 100] }

NumDays == 182            \* the clock's window: NumDays days from 2026-10-01
MaxMinBusinessDays == 8   \* minBusinessDays of a weekly request: 0..MaxMinBusinessDays

StartDay == DaysFromCivil(2026, 10, 1)
\* Hours of the day the clock takes: around UTC midnight, the daylight-saving
\* switches (06:00 and 07:00 UTC) and the market close (20:00 and 21:00 UTC).
ClockHours == {0, 3, 6, 7, 14, 19, 20, 21, 23}
Instants == {UtcMidnight(StartDay + k) + h : k \in 0..(NumDays - 1), h \in ClockHours}
TzOffsets == {-5, 0, 1}

ExpiryArgs ==
    [symbol : {"SPY", "AAPL", "HOOD", "COIN"},
     requestedType : {"0dte", "0DTE", "weekly", "monthly", "quarterly"},
     minBusinessDays : {0, 2}, override : {<<>>}]
    \cup [symbol : {"SPY"}, requestedType : {"weekly"},
          minBusinessDays : 0..MaxMinBusinessDays, override : {<<>>}]
    \cup [symbol : {"SPY", "COIN"}, requestedType : {"weekly"}, minBusinessDays : {2},
          override : {<<[valid |-> FALSE, t |-> 0]>>,
                      <<[valid |-> TRUE, t |-> UtcMidnight(StartDay + 1)]>>}]

SelArgs ==
    UNION { [options : Chains(len), side : {"call", "put"}, o : SelectorOpts] :
              len \in 0..MaxChainLen }


\* A normalized quote: strike in dollars, prices in cents, delta in hundredths.
Quote(strike, type, bid, ask, last, delta, oi, vol) ==
    [strike |-> RInt(strike), type |-> type, bid |-> bid, ask |-> ask, last |-> last,
     delta |-> delta, oi |-> oi, vol |-> vol]

\* The chains a provider answers with, sorted by strike as fetchEtradeChain
\* and fetchFmpChain leave them: a liquid chain, one without any price, one
\* of stale zero prices, one of one-cent options, one of puts only, one with
\* fewer than minContracts quotes, and the empty chain.
LiquidChain ==
    << Quote(450, "CALL", 100, 120, NoNum, 35, 500, 300),
       Quote(450, "PUT", 100, 120, NoNum, -35, 500, 300),
       Quote(455, "CALL", 50, 90, NoNum, 20, 50, 10),
       Quote(455, "PUT", 10, 200, NoNum, -20, 50, 0) >>
UnpricedChain ==
    << Quote(450, "CALL", NoNum, NoNum, NoNum, 35, 500, 300),
       Quote(450, "PUT", NoNum, NoNum, NoNum, NoNum, NoNum, NoNum),
       Quote(455, "CALL", NoNum, NoNum, NoNum, 20, 50, 10),
       Quote(455, "PUT", NoNum, NoNum, NoNum, NoNum, NoNum, NoNum) >>
ZeroChain ==
    << Quote(450, "CALL", 0, 0, 0, NoNum, 0, 0),
       Quote(450, "PUT", 0, 0, 0, NoNum, 0, 0),
       Quote(455, "CALL", 0, 0, 0, NoNum, 0, 0),
       Quote(455, "PUT", 0, 0, 0, NoNum, 0, 0) >>
PennyChain ==
    << Quote(450, "CALL", 1, 1, NoNum, 35, 500, 1000),
       Quote(450, "PUT", 1, 1, NoNum, -35, 500, 1000),
       Quote(455, "CALL", 0, 1, NoNum, 20, 50, 10),
       Quote(455, "PUT", 0, 1, NoNum, -20, 50, 10) >>
PutsOnlyChain ==
    << Quote(445, "PUT", 100, 120, NoNum, -35, 500, 300),
       Quote(450, "PUT", 50, 90, NoNum, -20, 50, 10),
       Quote(455, "PUT", 100, 100, NoNum, -35, 500, 1000),
       Quote(460, "PUT", 10, 200, NoNum, -20, 50, 0) >>
ShortChain == SubSeq(LiquidChain, 1, 2)

\* What the two providers do, etrade and fmp in the order they are tried:
\* <<>> is a call that throws, <<chain>> one that resolves to the chain.
ProviderOutcomes ==
    { [etrade |-> <<>>, fmp |-> <<>>],
      [etrade |-> <<>>, fmp |-> <<LiquidChain>>],
      [etrade |-> <<>>, fmp |-> << <<>> >>],
      [etrade |-> << <<>> >>, fmp |-> <<>>],
      [etrade |-> <<LiquidChain>>, fmp |-> <<>>],
      [etrade |-> <<UnpricedChain>>, fmp |-> <<>>],
      [etrade |-> <<ZeroChain>>, fmp |-> <<LiquidChain>>],
      [etrade |-> <<PennyChain>>, fmp |-> <<>>],
      [etrade |-> <<PutsOnlyChain>>, fmp |-> <<PennyChain>>],
      [etrade |-> <<ShortChain>>, fmp |-> <<LiquidChain>>],
      [etrade |-> <<ShortChain>>, fmp |-> << <<>> >>] }

\* When the caller runs and for which cadence: a Thursday at 14:00 UTC for
\* the weekly expiry, the same Thursday an hour before the close for the
\* same-day expiry, and Friday 2026-10-30 at 21:00 UTC, after the close, for
\* the monthly one.
CallerMoments ==
    { [clock |-> UtcMidnight(StartDay) + 14, expiryType |-> "weekly"],
      [clock |-> UtcMidnight(StartDay) + 19, expiryType |-> "0dte"],
      [clock |-> UtcMidnight(StartDay + 29) + 21, expiryType |-> "monthly"] }

\* What the Black-Scholes formula evaluates to: for SPY at 450, a strike 2
\* away and 20% volatility it gives about 0.0003, 0.0067 and 0.2615 with half
\* an hour, one hour and six hours to the expiry.
BsValues == {Rat(3, 10000), Rat(67, 10000), Rat(2615, 10000)}

\* The three callers with the parameters that steer them: the strategy of
\* analyzeSymbol, TARGET_DELTA and TARGET_PREMIUM of makeSuggestion, and
\* otmPct at its default (0.02 in ai-agent.js:241, null in suggest.js:18 and
\* market-open-feeder.js:327).
CallerKinds ==
    [caller : {"ai-agent"}, strategy : {"day_trade", "swing_trade"},
     targetDelta : {<<>>}, targetPremium : {<<>>}, otmPct : {<<Rat(2, 100)>>}]
    \cup [caller : {"suggest"}, strategy : {"default"},
          targetDelta : {<<>>}, targetPremium : {<<>>}, otmPct : {<<>>}]
    \cup [caller : {"market-open-feeder"}, strategy : {"default"},
          targetDelta : {<<>>, <<30>>}, targetPremium : {<<>>, <<Cents(20)>>},
          otmPct : {<<>>}]

CallerArgs ==
    { [caller |-> k.caller, strategy |-> k.strategy, targetDelta |-> k.targetDelta,
       targetPremium |-> k.targetPremium, otmPct |-> k.otmPct, symbol |-> "SPY",
       side |-> sd,
       price |-> RInt(450), account |-> RInt(25000), riskPct |-> Pcm(1000),
       iv |-> iv, bsValue |-> bs, minBusinessDays |-> 2, expiryType |-> m.expiryType,
       stopLossPct |-> sl.stopLossPct, takeProfitMult |-> sl.takeProfitMult,
       tieUp |-> tu, etrade |-> po.etrade, fmp |-> po.fmp, clock |-> m.clock] :
        k \in CallerKinds, sd \in {"call", "put"}, iv \in {0, 20}, bs \in BsValues,
        m \in CallerMoments,
        sl \in {[stopLossPct |-> Rat(1, 2), takeProfitMult |-> RInt(2)],
                [stopLossPct |-> Rat(1, 4), takeProfitMult |-> RInt(1)]},
        tu \in BOOLEAN, po \in ProviderOutcomes }

---------------------------------------------------------------------------
(* The sizing calls: the arguments are drawn at the start, the call returns *)

RiskIdle == riskIn = <<>> /\ riskOut = <<>>
PlanIdle == planIn = <<>> /\ planOut = <<>>
SelIdle == selIn = <<>> /\ selOut = <<>>
ExpIdle == clock = 0 /\ zone = 0 /\ expIn = <<>> /\ expOut = <<>>
CallerIdle ==
    /\ callIn = <<>> /\ pc = "idle" /\ suggestion = <<>> /\ chainResult = <<>>
    /\ candidate = <<>> /\ liveOption = <<>> /\ steps = <<>> /\ sizing = <<>>
PriceIdle == priceIn = <<>> /\ priceOut = <<>>
ServerIdle ==
    /\ listening = FALSE /\ env = <<>> /\ isScanning = FALSE /\ scanTimer = <<>>
    /\ timers = {} /\ nextScanDelayOverride = <<>> /\ scanConfig = 0
    /\ latestResults = <<>> /\ lastScanMeta = <<>> /\ lastScanError = <<>>
    /\ running = {} /\ scanCount = 0 /\ lastResponse = <<>> /\ audit = <<>>
RetryIdle == retry = <<>>
BarsIdle ==
    /\ barNow = 0 /\ cache = <<>> /\ fmpCache = <<>> /\ flights = {}
    /\ barCalls = 0 /\ barLog = <<>> /\ barOk = <<>>
FeedIdle == RetryIdle /\ BarsIdle
AuxIdle == PriceIdle /\ ServerIdle /\ FeedIdle

ReturnComputeQty ==
    /\ riskIn # <<>> /\ riskOut = <<>>
    /\ riskOut' = <<computeQty(riskIn[1])>>
    /\ UNCHANGED <<auxVars, riskIn, planVars, selVars, expVars, callerVars>>

ReturnBuildScalingPlan ==
    /\ planIn # <<>> /\ planOut = <<>>
    /\ planOut' = <<buildScalingPlan(planIn[1])>>
    /\ UNCHANGED <<auxVars, planIn, riskVars, selVars, expVars, callerVars>>

InitRisk == riskIn \in {<<a>> : a \in RiskArgs} /\ riskOut = <<>> /\ PlanIdle /\ SelIdle /\ ExpIdle /\ CallerIdle /\ AuxIdle
NextRisk == ReturnComputeQty
SpecRisk == InitRisk /\ [][NextRisk]_vars

\* computeQty calls with numbers of any kind: NaN, the infinities, negative
\* and zero values next to ordinary ones; maxContracts stays an integer and
\* may be negative.
NonFinite == {NaN, PosInf, NegInf}
AnyAccountSizes == NonFinite \cup {RInt(-1000), RInt(0), RInt(1000)}
AnyRiskPcts == NonFinite \cup {Pcm(-1000), Pcm(1000), Pcm(5000)}
AnyPrices == NonFinite \cup {Cents(-100), Cents(0), Cents(100), Cents(150)}
AnyMaxContracts == {-5, 0, 3, DefaultMaxContracts}
AnyRiskArgs ==
    [accountSize : AnyAccountSizes, riskPct : AnyRiskPcts, entry : AnyPrices,
     stop : AnyPrices, multiplier : {1, DefaultMultiplier},
     maxContracts : AnyMaxContracts, strategy : Strategies]

InitRiskAny == riskIn \in {<<a>> : a \in AnyRiskArgs} /\ riskOut = <<>> /\ PlanIdle /\ SelIdle /\ ExpIdle /\ CallerIdle /\ AuxIdle
NextRiskAny == ReturnComputeQty
SpecRiskAny == InitRiskAny /\ [][NextRiskAny]_vars

\* bsOptionPrice on its own: at, in and out of the money, with a time to
\* expiry and a volatility that are negative, zero and positive.
PricerSpots == {100, 500}
PricerStrikes(S) == {(S * k) \div 100 : k \in {75, 83, 95, 100, 105, 125, 138}}
PricerDays == {-1, 0, 5, 7, 14}
PricerSigmas == {-20, 0, 20, 50}
PricerRates == {0, 1}
PricerArgs ==
    { [S |-> S, K |-> K, days |-> dy, sigma |-> sg, r |-> r, type |-> ty] :
        S \in PricerSpots, K \in PricerStrikes(100) \cup PricerStrikes(500),
        dy \in PricerDays, sg \in PricerSigmas, r \in PricerRates,
        ty \in {"call", "put"} }

ReturnBsOptionPrice ==
    /\ priceIn # <<>> /\ priceOut = <<>>
    /\ priceOut' = <<bsOptionPriceDouble(priceIn[1])>>
    /\ UNCHANGED <<priceIn, coreVars, serverVars, feedVars>>

InitPrice ==
    /\ priceIn \in {<<a>> : a \in {x \in PricerArgs : x.K \in PricerStrikes(x.S)}}
    /\ priceOut = <<>>
    /\ RiskIdle /\ PlanIdle /\ SelIdle /\ ExpIdle /\ CallerIdle /\ ServerIdle /\ FeedIdle
NextPrice == ReturnBsOptionPrice
SpecPrice == InitPrice /\ [][NextPrice]_vars

ReturnSelectOptimal ==
    /\ selIn # <<>> /\ selOut = <<>>
    /\ selOut' = <<selectOptimalOption(selIn[1].options, selIn[1].side, selIn[1].o)>>
    /\ UNCHANGED <<auxVars, selIn, riskVars, planVars, expVars, callerVars>>

\* midPrice on its own: a quote's bid, ask and last, each missing (null) or
\* a price in cents, zero included.
QuotePrices == {NoNum, 0, 8, 10, 12}
MidArgs == [bid : QuotePrices, ask : QuotePrices, last : QuotePrices]

ReturnMidPrice ==
    /\ selIn # <<>> /\ selOut = <<>>
    /\ selOut' = <<midPrice(selIn[1])>>
    /\ UNCHANGED <<auxVars, selIn, riskVars, planVars, expVars, callerVars>>

InitMid == selIn \in {<<q>> : q \in MidArgs} /\ selOut = <<>> /\ RiskIdle /\ PlanIdle /\ ExpIdle /\ CallerIdle /\ AuxIdle
NextMid == ReturnMidPrice
SpecMid == InitMid /\ [][NextMid]_vars

\* pickNearestStrike on its own: the chains of the selector and target
\* strikes below, on, between (457.5 is as far from 455 as from 460) and
\* above the chain's strikes.
TargetStrikes == {RInt(452), RInt(455), Rat(915, 2), RInt(459), RInt(470)}
NearestArgs ==
    UNION { [options : Chains(len), side : {"call", "put"}, targetStrike : TargetStrikes] :
              len \in 0..MaxChainLen }

ReturnPickNearestStrike ==
    /\ selIn # <<>> /\ selOut = <<>>
    /\ selOut' = <<pickNearestStrike(selIn[1].options, selIn[1].side, selIn[1].targetStrike)>>
    /\ UNCHANGED <<auxVars, selIn, riskVars, planVars, expVars, callerVars>>

InitNearest == selIn \in {<<a>> : a \in NearestArgs} /\ selOut = <<>> /\ RiskIdle /\ PlanIdle /\ ExpIdle /\ CallerIdle /\ AuxIdle
NextNearest == ReturnPickNearestStrike
SpecNearest == InitNearest /\ [][NextNearest]_vars

\* selectOptimalOption on one list twice, with two values of maxSpreadPct
\* (in hundredths, lo < hi) and the other thresholds the same: 0.30 and 0.40
\* are the callers' values, 0 and 0.01 lie at the floor Math.max(maxSpreadPct, 0.01).
MaxSpreadPcts == {0, 1, 30, 40}

\* The quotes of these lists: a tight market off the target delta (spread 5%
\* of the mid), a wide one on it (30%), a quote with only a last price, and
\* a market wider than every threshold (57%).
SpreadProfiles ==
    { [bid |-> 195, ask |-> 205, last |-> NoNum, delta |-> 25, oi |-> 500, vol |-> 300],
      [bid |-> 170, ask |-> 230, last |-> NoNum, delta |-> 35, oi |-> 500, vol |-> 300],
      [bid |-> NoNum, ask |-> NoNum, last |-> 80, delta |-> NoNum, oi |-> NoNum, vol |-> NoNum],
      [bid |-> 50, ask |-> 90, last |-> NoNum, delta |-> 20, oi |-> 50, vol |-> 10] }
SpreadChains(len) ==
    { [i \in 1..len |-> QuoteAt(c[i][1], c[i][2], i)] :
        c \in [1..len -> (SpreadProfiles \X {"CALL"})
                            \cup ({f \in SpreadProfiles : f.delta = 35} \X {"PUT"})] }
SpreadArgs ==
    UNION { [options : SpreadChains(len), side : {"call", "put"},
             o : {[targetDelta |-> 35, minOpenInterest |-> 75]},
             lo : MaxSpreadPcts, hi : MaxSpreadPcts] : len \in 0..MaxChainLen }

\* The thresholds o with maxSpreadPct set to m
WithMaxSpread(o, m) ==
    [targetDelta |-> o.targetDelta, maxSpreadPct |-> m, minOpenInterest |-> o.minOpenInterest]

ReturnSelectBoth ==
    /\ selIn # <<>> /\ selOut = <<>>
    /\ selOut' = <<[lo |-> selectOptimalOption(selIn[1].options, selIn[1].side,
                                               WithMaxSpread(selIn[1].o, selIn[1].lo)),
                    hi |-> selectOptimalOption(selIn[1].options, selIn[1].side,
                                               WithMaxSpread(selIn[1].o, selIn[1].hi))]>>
    /\ UNCHANGED <<auxVars, selIn, riskVars, planVars, expVars, callerVars>>

InitSpread ==
    /\ selIn \in {<<a>> : a \in {x \in SpreadArgs : x.lo < x.hi}}
    /\ selOut = <<>> /\ RiskIdle /\ PlanIdle /\ ExpIdle /\ CallerIdle /\ AuxIdle
NextSpread == ReturnSelectBoth
SpecSpread == InitSpread /\ [][NextSpread]_vars

InitSelect == selIn \in {<<a>> : a \in SelArgs} /\ selOut = <<>> /\ RiskIdle /\ PlanIdle /\ ExpIdle /\ CallerIdle /\ AuxIdle
NextSelect == ReturnSelectOptimal
SpecSelect == InitSelect /\ [][NextSelect]_vars

ReturnResolveExpiryDate ==
    /\ expIn # <<>> /\ expOut = <<>>
    /\ expOut' = <<resolveExpiryDate(expIn[1].symbol, expIn[1].requestedType,
                                     expIn[1].minBusinessDays, expIn[1].override,
                                     clock, zone)>>
    /\ UNCHANGED <<auxVars, clock, zone, expIn, riskVars, planVars, selVars, callerVars>>

\* Calls with an override, good or bad, for every kind of symbol policy and
\* every requested cadence, against either copy of the options module.
OverrideArgs ==
    [symbol : {"SPY", "AAPL", "HOOD", "COIN"},
     requestedType : {"0dte", "weekly", "monthly", "quarterly"},
     minBusinessDays : {0, 2},
     override : {<<[valid |-> FALSE, t |-> 0]>>,
                 <<[valid |-> TRUE, t |-> UtcMidnight(StartDay + 1)]>>,
                 <<[valid |-> TRUE, t |-> UtcMidnight(StartDay - 30) + 20]>>},
     copy : {"part_002", "strategy/options.js"}]

ReturnResolveOverride ==
    /\ expIn # <<>> /\ expOut = <<>>
    /\ expOut' = IF expIn[1].copy = "part_002"
                 THEN <<resolveExpiryDate(expIn[1].symbol, expIn[1].requestedType,
                                          expIn[1].minBusinessDays, expIn[1].override,
                                          clock, zone)>>
                 ELSE <<pickContractOverride(expIn[1].requestedType, expIn[1].override)>>
    /\ UNCHANGED <<auxVars, clock, zone, expIn, riskVars, planVars, selVars, callerVars>>

InitOverride ==
    /\ clock \in {UtcMidnight(StartDay) + h : h \in ClockHours} /\ zone \in TzOffsets
    /\ expIn \in {<<a>> : a \in OverrideArgs} /\ expOut = <<>>
    /\ RiskIdle /\ PlanIdle /\ SelIdle /\ CallerIdle /\ AuxIdle
NextOverride == ReturnResolveOverride
SpecOverride == InitOverride /\ [][NextOverride]_vars

InitExpiry ==
    /\ clock \in Instants /\ zone \in TzOffsets
    /\ expIn \in {<<a>> : a \in ExpiryArgs} /\ expOut = <<>>
    /\ RiskIdle /\ PlanIdle /\ SelIdle /\ CallerIdle /\ AuxIdle
NextExpiry == ReturnResolveExpiryDate
SpecExpiry == InitExpiry /\ [][NextExpiry]_vars

InitPlan == planIn \in {<<a>> : a \in PlanArgs} /\ planOut = <<>> /\ RiskIdle /\ SelIdle /\ ExpIdle /\ CallerIdle /\ AuxIdle
NextPlan == ReturnBuildScalingPlan
SpecPlan == InitPlan /\ [][NextPlan]_vars

---------------------------------------------------------------------------
(* A caller making one suggestion *)

\* buildSuggestion, the model-based baseline
CallBuildSuggestion ==
    /\ pc = "build"
    /\ suggestion' = <<buildSuggestion(SuggestionArgs(callIn[1]), clock, zone)>>
    /\ pc' = IF "error" \in DOMAIN suggestion'[1] THEN "failed" ELSE "fetch"
    /\ UNCHANGED <<auxVars, callIn, chainResult, candidate, liveOption, steps, sizing,
                   riskVars, planVars, selVars, expVars>>

\* await fetchOptionChain({symbol, expiry, includeGreeks: true})
CallFetchOptionChain ==
    /\ pc = "fetch"
    /\ chainResult' = <<fetchOptionChain(callIn[1].etrade, callIn[1].fmp)>>
    /\ pc' = afterFetch(callIn[1].caller)
    /\ UNCHANGED <<auxVars, callIn, suggestion, candidate, liveOption, steps, sizing,
                   riskVars, planVars, selVars, expVars>>

\* market-open-feeder.js:439-441: pickByDelta when a target delta is set,
\* then pickByPremium when that gave nothing and a target premium is set
PickByTarget ==
    /\ pc = "target"
    /\ LET a == callIn[1]
           chain == chainResult[1].options
           c1 == IF a.targetDelta # <<>> THEN pickByDelta(chain, a.side, a.targetDelta[1])
                 ELSE <<>>
           s1 == IF a.targetDelta # <<>>
                 THEN Append(steps, [call |-> "pickByDelta", found |-> c1 # <<>>])
                 ELSE steps
           runPremium == c1 = <<>> /\ a.targetPremium # <<>>
           c2 == IF runPremium THEN pickByPremium(chain, a.side, a.targetPremium[1]) ELSE c1
           s2 == IF runPremium
                 THEN Append(s1, [call |-> "pickByPremium", found |-> c2 # <<>>])
                 ELSE s1
       IN  candidate' = c2 /\ steps' = s2
    /\ pc' = "optimal"
    /\ UNCHANGED <<auxVars, callIn, suggestion, chainResult, liveOption, sizing,
                   riskVars, planVars, selVars, expVars>>

\* selectOptimalOption: unconditional in analyzeSymbol and suggestOne, under
\* "if (!candidate)" in makeSuggestion
TrySelectOptimal ==
    /\ pc = "optimal"
    /\ IF candidate = <<>>
       THEN LET c == selectOptimalOption(chainResult[1].options, callIn[1].side,
                                         OptimalOpts(callIn[1]))
            IN  /\ candidate' = c
                /\ steps' = Append(steps, [call |-> "selectOptimalOption", found |-> c # <<>>])
       ELSE UNCHANGED <<candidate, steps>>
    /\ pc' = "nearest"
    /\ UNCHANGED <<auxVars, callIn, suggestion, chainResult, liveOption, sizing,
                   riskVars, planVars, selVars, expVars>>

\* if (!candidate) candidate = pickNearestStrike(chain, side, suggestion.strike)
TryNearestStrike ==
    /\ pc = "nearest"
    /\ IF needsFallback(candidate)
       THEN LET c == pickNearestStrike(chainResult[1].options, callIn[1].side,
                                       suggestion[1].strike)
            IN  /\ candidate' = c
                /\ steps' = Append(steps, [call |-> "pickNearestStrike", found |-> c # <<>>])
       ELSE UNCHANGED <<candidate, steps>>
    /\ pc' = "apply"
    /\ UNCHANGED <<auxVars, callIn, suggestion, chainResult, liveOption, sizing,
                   riskVars, planVars, selVars, expVars>>

\* if (candidate) { liveOption = candidate; ... } and, after the try block,
\* if (!liveOption) suggestion.entry_source = 'model'
ApplyCandidate ==
    /\ pc = "apply"
    /\ liveOption' = candidate
    /\ suggestion' =
          <<markModelSource(
              applyCandidate(suggestion[1], candidate, chainResult[1].source,
                             adjustedParams(callIn[1]).stopLossPct,
                             adjustedParams(callIn[1]).takeProfitMult, callIn[1].tieUp),
              candidate)>>
    /\ pc' = "size"
    /\ UNCHANGED <<auxVars, callIn, chainResult, candidate, steps, sizing,
                   riskVars, planVars, selVars, expVars>>

\* computeQty with the suggestion's entry and stop; analyzeSymbol goes on to
\* buildScalingPlan with the quantity
CallerComputeQty ==
    /\ pc = "size"
    /\ LET args == SizingArgs(callIn[1], suggestion[1])
           r == computeQty(args)
       IN  sizing' = <<[args |-> args, result |-> r,
                        plan |-> IF callIn[1].caller = "ai-agent"
                                 THEN <<buildScalingPlan(
                                          [qty |-> r.qty, entry |-> suggestion[1].est_entry,
                                           takeProfit |-> suggestion[1].take_profit,
                                           stop |-> suggestion[1].stop,
                                           tieUp |-> callIn[1].tieUp])>>
                                 ELSE <<>>]>>
    /\ pc' = "done"
    /\ UNCHANGED <<auxVars, callIn, suggestion, chainResult, candidate, liveOption, steps,
                   riskVars, planVars, selVars, expVars>>

\* The calls of buildSuggestion on their own: symbols with 1 and 0.5 strike
\* increments and one without entry (COIN), spot prices and --otm-pct values
\* (none, 0, 2%, 6.6%, 8%) whose targets fall on and between strikes.
BuildPrices == {100, 225, 450, 500}
BuildOtmPcts == {<<>>} \cup {<<Rat(k, 1000)>> : k \in {0, 20, 66, 80}}
BuildArgs ==
    { [caller |-> k.caller, strategy |-> k.strategy, targetDelta |-> <<>>,
       targetPremium |-> <<>>, otmPct |-> otm, symbol |-> sym, side |-> sd,
       price |-> RInt(p), account |-> RInt(25000), riskPct |-> Pcm(1000),
       iv |-> 20, bsValue |-> Rat(2615, 10000), minBusinessDays |-> 2,
       expiryType |-> et, stopLossPct |-> Rat(1, 2), takeProfitMult |-> RInt(2),
       tieUp |-> TRUE, etrade |-> <<>>, fmp |-> <<>>,
       clock |-> UtcMidnight(StartDay) + 14] :
        k \in {[caller |-> "suggest", strategy |-> "default"],
               [caller |-> "ai-agent", strategy |-> "day_trade"]},
        sym \in {"SPY", "AAPL", "HOOD", "COIN"}, sd \in {"call", "put"},
        p \in BuildPrices, otm \in BuildOtmPcts, et \in {"weekly", "0dte"} }

InitBuild ==
    /\ callIn \in {<<a>> : a \in BuildArgs}
    /\ clock = callIn[1].clock /\ zone = 0 /\ expIn = <<>> /\ expOut = <<>>
    /\ pc = "build" /\ suggestion = <<>> /\ chainResult = <<>> /\ candidate = <<>>
    /\ liveOption = <<>> /\ steps = <<>> /\ sizing = <<>>
    /\ RiskIdle /\ PlanIdle /\ SelIdle /\ AuxIdle
NextBuild == CallBuildSuggestion
SpecBuild == InitBuild /\ [][NextBuild]_vars

InitCaller ==
    /\ callIn \in {<<a>> : a \in CallerArgs}
    /\ clock = callIn[1].clock /\ zone = 0 /\ expIn = <<>> /\ expOut = <<>>
    /\ pc = "build" /\ suggestion = <<>> /\ chainResult = <<>> /\ candidate = <<>>
    /\ liveOption = <<>> /\ steps = <<>> /\ sizing = <<>>
    /\ RiskIdle /\ PlanIdle /\ SelIdle /\ AuxIdle
NextCaller ==
    \/ CallBuildSuggestion
    \/ CallFetchOptionChain
    \/ PickByTarget
    \/ TrySelectOptimal
    \/ TryNearestStrike
    \/ ApplyCandidate
    \/ CallerComputeQty
SpecCaller == InitCaller /\ [][NextCaller]_vars

---------------------------------------------------------------------------
(* The dashboard server's handlers *)

\* The environment: AGENT_INTERVAL_MS as configured (the default, 0 or a
\* negative number) and one or two AI providers.
ServerEnvs ==
    { [interval |-> i, providers |-> n] : i \in {DefaultIntervalMs, 0, -1}, n \in {1, 2} }

\* server.js:1527-1530, the app.listen callback.
Listen ==
    /\ ~listening
    /\ listening' = TRUE
    /\ scanTimer' = scheduleNextScan(TimerState(scanTimer, timers), ListenDelay).scanTimer
    /\ timers' = scheduleNextScan(TimerState(scanTimer, timers), ListenDelay).timers
    /\ UNCHANGED <<env, isScanning, nextScanDelayOverride, scanConfig, latestResults,
                   lastScanMeta, lastScanError, running, scanCount, lastResponse, audit>>
    /\ UNCHANGED <<coreVars, priceVars, feedVars>>

\* server.js:1303-1351, triggerScan up to its first await, called with the
\* timers that are pending at the call.
TriggerScan(source, pending) ==
    /\ IF scanInProgress(isScanning)
       THEN /\ lastResponse' = <<rejectedResponse(source)>>
            /\ timers' = pending
            /\ UNCHANGED <<isScanning, scanTimer, running, scanCount, audit>>
       ELSE /\ isScanning' = TRUE
            /\ scanTimer' = clearPendingTimer(TimerState(scanTimer, pending)).scanTimer
            /\ timers' = clearPendingTimer(TimerState(scanTimer, pending)).timers
            /\ running' = running \cup
                  {startedScan(scanCount + 1, source, scanConfig, env[1].providers)}
            /\ scanCount' = scanCount + 1
            /\ audit' = [audit EXCEPT !.updatedDuringScan = FALSE,
                                      !.resultsAtStart = latestResults]
            /\ UNCHANGED lastResponse
    /\ UNCHANGED <<listening, env, nextScanDelayOverride, scanConfig, latestResults,
                   lastScanMeta, lastScanError>>
    /\ UNCHANGED <<coreVars, priceVars, feedVars>>

\* server.js:554-561, POST /api/scan.
PostScan ==
    /\ listening /\ (isScanning \/ scanCount < MaxScans)
    /\ TriggerScan("manual", timers)

\* server.js:1504-1508, the auto-scan timer fires.
TimerFires ==
    /\ isScanning \/ scanCount < MaxScans
    /\ \E t \in timers : TriggerScan("auto", timers \ {t})

\* server.js:1337-1403, the agent run of one provider settles.
ProviderRun ==
    /\ \E sc \in running, outcome \in {"ok", "fail", "throw"} :
          /\ sc.left > 0
          /\ running' = (running \ {sc}) \cup {afterProviderRun(sc, outcome)}
    /\ UNCHANGED <<listening, env, isScanning, scanTimer, timers, nextScanDelayOverride,
                   scanConfig, latestResults, lastScanMeta, lastScanError, scanCount,
                   lastResponse, audit>>
    /\ UNCHANGED <<coreVars, priceVars, feedVars>>

\* server.js:1406-1495, from the end of the provider loop to the return.
FinishScan ==
    /\ \E sc \in running :
          /\ sc.left = 0
          /\ running' = running \ {sc}
          /\ latestResults' = resultsAfter(sc, latestResults)
          /\ lastScanMeta' = metaAfter(sc)
          /\ lastScanError' = errorAfter(sc)
          /\ lastResponse' = <<scanResponse(sc)>>
          /\ audit' = [audit EXCEPT !.finished = Append(@,
                          [scan |-> sc.id, config |-> sc.config,
                           allFailed |-> sc.summaries = 0,
                           updated |-> audit.updatedDuringScan,
                           resultsBefore |-> audit.resultsAtStart,
                           delay |-> nextDelay(nextScanDelayOverride, env[1].interval)])]
    /\ isScanning' = flagAfterScan(isScanning)
    /\ nextScanDelayOverride' = <<>>
    /\ scanTimer' = scheduleNextScan(TimerState(scanTimer, timers),
                        nextDelay(nextScanDelayOverride, env[1].interval)).scanTimer
    /\ timers' = scheduleNextScan(TimerState(scanTimer, timers),
                        nextDelay(nextScanDelayOverride, env[1].interval)).timers
    /\ UNCHANGED <<listening, env, scanConfig, scanCount>>
    /\ UNCHANGED <<coreVars, priceVars, feedVars>>

\* server.js:567-609, POST /api/scan/config: a body that is turned down with
\* 400, or an accepted watchlist and strategy.
PostConfig ==
    /\ listening
    /\ \E valid \in BOOLEAN :
          IF ~valid
          THEN /\ lastResponse' = <<[source |-> "config", scan |-> 0, success |-> FALSE,
                                     status |-> 400, error |-> "invalid"]>>
               /\ UNCHANGED <<scanConfig, nextScanDelayOverride, scanTimer, timers, audit>>
          ELSE /\ scanConfig < MaxConfigUpdates
               /\ scanConfig' = scanConfig + 1
               /\ nextScanDelayOverride' = IF isScanning THEN <<ConfigUpdateDelay>> ELSE <<>>
               /\ scanTimer' = IF isScanning THEN scanTimer
                               ELSE scheduleNextScan(TimerState(scanTimer, timers),
                                                     ConfigUpdateDelay).scanTimer
               /\ timers' = IF isScanning THEN timers
                            ELSE scheduleNextScan(TimerState(scanTimer, timers),
                                                  ConfigUpdateDelay).timers
               /\ audit' = [audit EXCEPT !.updatedDuringScan = @ \/ isScanning]
               /\ lastResponse' = <<[source |-> "config", scan |-> 0, success |-> TRUE,
                                     status |-> 200, error |-> ""]>>
    /\ UNCHANGED <<listening, env, isScanning, latestResults, lastScanMeta, lastScanError,
                   running, scanCount>>
    /\ UNCHANGED <<coreVars, priceVars, feedVars>>

\* server.js:543-552, GET /api/recommendations: serves latestResults.
GetRecommendations ==
    /\ listening
    /\ lastResponse' = <<[source |-> "recommendations",
                          scan |-> IF latestResults = <<>> THEN 0 ELSE latestResults[1].scan,
                          success |-> TRUE, status |-> 200, error |-> ""]>>
    /\ UNCHANGED <<listening, env, isScanning, scanTimer, timers, nextScanDelayOverride,
                   scanConfig, latestResults, lastScanMeta, lastScanError, running,
                   scanCount, audit>>
    /\ UNCHANGED <<coreVars, priceVars, feedVars>>

InitServer ==
    /\ listening = FALSE /\ env \in {<<e>> : e \in ServerEnvs}
    /\ isScanning = FALSE /\ scanTimer = <<>> /\ timers = {}
    /\ nextScanDelayOverride = <<>> /\ scanConfig = 0
    /\ latestResults = <<>> /\ lastScanMeta = <<>> /\ lastScanError = <<>>
    /\ running = {} /\ scanCount = 0 /\ lastResponse = <<>>
    /\ audit = [updatedDuringScan |-> FALSE, resultsAtStart |-> <<>>, finished |-> <<>>]
    /\ RiskIdle /\ PlanIdle /\ SelIdle /\ ExpIdle /\ CallerIdle /\ PriceIdle /\ FeedIdle
NextServer ==
    \/ Listen
    \/ PostScan
    \/ TimerFires
    \/ ProviderRun
    \/ FinishScan
    \/ PostConfig
    \/ GetRecommendations
SpecServer == InitServer /\ [][NextServer]_vars

\* The same with every agent run settling (execAsync has a timeout of
\* AGENT_TIMEOUT_MS) and the handler going on after it.
SpecServerLive ==
    InitServer /\ [][NextServer]_vars /\ WF_vars(ProviderRun) /\ WF_vars(FinishScan)

---------------------------------------------------------------------------
(* The feeder's withRetries *)

\* The HTTP statuses of the responses that are not ok, and no status.
RetryErrors == {NoStatus} \cup {HttpError(c) : c \in {400, 404, 429, 499, 500, 503}}

\* market-snapshot-feeder.js:42, fn() resolves: withRetries returns its value.
FnResolves ==
    /\ retry # <<>> /\ retry[1].state = "calling"
    /\ retry' = <<[retry[1] EXCEPT !.state = "returned"]>>
    /\ UNCHANGED <<coreVars, priceVars, serverVars, barVars>>

\* market-snapshot-feeder.js:43-48, fn() rejects.
FnRejects ==
    /\ retry # <<>> /\ retry[1].state = "calling"
    /\ \E err \in RetryErrors : retry' = <<afterRejection(retry[1], err, MAX_RETRIES)>>
    /\ UNCHANGED <<coreVars, priceVars, serverVars, barVars>>

\* market-snapshot-feeder.js:48 and 40-42, the sleep is over and fn is called again.
SleepEnds ==
    /\ retry # <<>> /\ retry[1].state = "sleeping"
    /\ retry' = <<[retry[1] EXCEPT !.state = "calling", !.calls = @ + 1]>>
    /\ UNCHANGED <<coreVars, priceVars, serverVars, barVars>>

InitRetry ==
    /\ retry = <<retryStarted>>
    /\ RiskIdle /\ PlanIdle /\ SelIdle /\ ExpIdle /\ CallerIdle
    /\ PriceIdle /\ ServerIdle /\ BarsIdle
NextRetry ==
    \/ FnResolves
    \/ FnRejects
    \/ SleepEnds
SpecRetry == InitRetry /\ [][NextRetry]_vars

---------------------------------------------------------------------------
(* The bars provider's fetches *)

\* The instants at which something happens, ms: a second apart around the
\* start and around 20 s after it.
BarInstants == {0, 1000, 19000, 20000, 21000}

Tick ==
    /\ barNow' \in BarInstants /\ barNow' > barNow
    /\ UNCHANGED <<cache, fmpCache, flights, barCalls, barLog, barOk>>
    /\ UNCHANGED <<coreVars, priceVars, serverVars, retryVars>>

\* bars.js:49-58 and 100-111: a fetch is called; it returns the cached bars
\* or sends its request.
CallFetch(name, entry, key) ==
    /\ barCalls < MaxFetches
    /\ barCalls' = barCalls + 1
    /\ IF cachedFresh(entry, barNow)
       THEN /\ barLog' = <<[map |-> name, key |-> key, at |-> barNow,
                            from |-> "cache", data |-> entry[1].data]>>
            /\ UNCHANGED flights
       ELSE /\ barLog' = <<[map |-> name, key |-> key, at |-> barNow,
                            from |-> "network", data |-> 0]>>
            /\ flights' = flights \cup
                  {[id |-> barCalls + 1, map |-> name, key |-> key, at |-> barNow]}
    /\ UNCHANGED <<barNow, cache, fmpCache, barOk>>
    /\ UNCHANGED <<coreVars, priceVars, serverVars, retryVars>>

\* bars.js:99-111
FetchYahooBars == \E k \in YahooKeys : CallFetch("cache", cache[k], k)

\* bars.js:42-58
FetchFmpBars == \E k \in FmpKeys : CallFetch("fmpCache", fmpCache[k], k)

\* bars.js:112-131, the response to a Yahoo request: bars that are stored, or
\* a status that is not ok or a body that does not parse, and the fetch throws.
YahooSettles ==
    /\ \E f \in flights, ok \in BOOLEAN :
          /\ f.map = "cache"
          /\ flights' = flights \ {f}
          /\ IF ok
             THEN /\ cache' = [cache EXCEPT ![f.key] = cacheEntry(f, barNow)]
                  /\ barOk' = [barOk EXCEPT ![<<f.map, f.key>>] =
                                  <<[id |-> f.id, started |-> f.at, completed |-> barNow]>>]
             ELSE UNCHANGED <<cache, barOk>>
    /\ UNCHANGED <<barNow, fmpCache, barCalls, barLog>>
    /\ UNCHANGED <<coreVars, priceVars, serverVars, retryVars>>

\* bars.js:59-90, the response to an FMP request: bars that are stored, or a
\* status that is not ok, no bars or none that parse, and the fetch throws.
FmpSettles ==
    /\ \E f \in flights, ok \in BOOLEAN :
          /\ f.map = "fmpCache"
          /\ flights' = flights \ {f}
          /\ IF ok
             THEN /\ fmpCache' = [fmpCache EXCEPT ![f.key] = cacheEntry(f, barNow)]
                  /\ barOk' = [barOk EXCEPT ![<<f.map, f.key>>] =
                                  <<[id |-> f.id, started |-> f.at, completed |-> barNow]>>]
             ELSE UNCHANGED <<fmpCache, barOk>>
    /\ UNCHANGED <<barNow, cache, barCalls, barLog>>
    /\ UNCHANGED <<coreVars, priceVars, serverVars, retryVars>>

InitBars ==
    /\ barNow = 0
    /\ cache = [k \in YahooKeys |-> <<>>] /\ fmpCache = [k \in FmpKeys |-> <<>>]
    /\ flights = {} /\ barCalls = 0 /\ barLog = <<>>
    /\ barOk = [k \in BarKeys |-> <<>>]
    /\ RiskIdle /\ PlanIdle /\ SelIdle /\ ExpIdle /\ CallerIdle
    /\ PriceIdle /\ ServerIdle /\ RetryIdle
NextBars ==
    \/ Tick
    \/ FetchYahooBars
    \/ FetchFmpBars
    \/ YahooSettles
    \/ FmpSettles
SpecBars == InitBars /\ [][NextBars]_vars

---------------------------------------------------------------------------
(* Claims about RiskSizer and ScalingPlanBuilder *)

ValidRiskArgs(a) ==
    /\ RLe(RInt(0), a.accountSize) /\ RLe(RInt(0), a.riskPct)
    /\ RLt(a.stop, a.entry) /\ a.multiplier > 0 /\ a.maxContracts >= 0

\* Finite, valid inputs but for the sign of maxContracts.
ValidRiskArgsButCap(a) ==
    /\ IsFiniteNum(a.accountSize) /\ IsFiniteNum(a.riskPct)
    /\ IsFiniteNum(a.entry) /\ IsFiniteNum(a.stop)
    /\ RLe(RInt(0), a.accountSize) /\ RLe(RInt(0), a.riskPct)
    /\ RLt(a.stop, a.entry) /\ a.multiplier > 0

C2_CapsOnlyTighten ==
    (riskOut # <<>> /\ ValidRiskArgs(riskIn[1])) =>
        LET a == riskIn[1]
            r == riskOut[1]
        IN  /\ RLe(r.adjustedRiskPct, a.riskPct)
            /\ adjustedMaxContracts(a.strategy, a.maxContracts) <= a.maxContracts

\* C2 amended: adjustedMaxContracts <= maxContracts (and so quantity <=
\* maxContracts) for every strategy; adjustedRiskPct <= riskPct for every
\* strategy but swing_trade, whose adjustedRiskPct is min(1.5 * riskPct, 2%)
\* and so may exceed riskPct, never 2%.
C2_CapsAmended ==
    (riskOut # <<>> /\ ValidRiskArgs(riskIn[1])) =>
        LET a == riskIn[1]
            r == riskOut[1]
        IN  /\ adjustedMaxContracts(a.strategy, a.maxContracts) <= a.maxContracts
            /\ r.qty <= a.maxContracts
            /\ a.strategy # "swing_trade" => RLe(r.adjustedRiskPct, a.riskPct)
            /\ a.strategy = "swing_trade" =>
                  /\ r.adjustedRiskPct = RMin(RMul(a.riskPct, Rat(3, 2)), Pcm(SwingRiskCap))
                  /\ RLe(r.adjustedRiskPct, Pcm(SwingRiskCap))

\* A swing_trade call whose adjusted risk fraction is above the caller's.
C2_Witness ==
    /\ riskOut # <<>> /\ ValidRiskArgs(riskIn[1])
    /\ riskIn[1].strategy = "swing_trade"
    /\ RLt(riskIn[1].riskPct, riskOut[1].adjustedRiskPct)

\* A number that is neither NaN nor negative.
WellFormed(x) == ~IsNaN(x) /\ FLe(RInt(0), x)

\* C17: whatever the inputs of computeQty are (NaN, infinite or negative
\* accountSize, riskPct, entry, stop or maxContracts included), the returned
\* quantity is an integer >= 0 and neither perContractRisk nor totalRisk is
\* NaN or negative.
C17_NoMalformedNumber ==
    riskOut # <<>> =>
        /\ riskOut[1].qty >= 0
        /\ WellFormed(riskOut[1].perContractRisk)
        /\ WellFormed(riskOut[1].totalRisk)

\* The same with every input finite and only maxContracts negative.
C17_NegativeCapOnly ==
    (riskOut # <<>> /\ ValidRiskArgsButCap(riskIn[1])) => riskOut[1].qty >= 0

\* The three numbers of the early return.
ZeroSizing == [qty |-> 0, perContractRisk |-> RInt(0), totalRisk |-> RInt(0)]

\* C18: whenever perContractRisk <= 0, and so whenever entry and stop are
\* finite with stop >= entry, computeQty returns exactly quantity 0,
\* perContractRisk 0 and totalRisk 0, whatever accountSize, riskPct,
\* maxContracts and strategy are.
C18_ZeroOnNoRisk ==
    (/\ riskOut # <<>>
     /\ \/ FLe(perContractRiskOf(riskIn[1].entry, riskIn[1].stop, riskIn[1].multiplier), RInt(0))
        \/ /\ IsFiniteNum(riskIn[1].entry) /\ IsFiniteNum(riskIn[1].stop)
           /\ RLe(riskIn[1].entry, riskIn[1].stop))
        => riskOut[1] = ZeroSizing

\* The spec's boundary call: accountSize 1000, riskPct 0.01, entry 1.00,
\* stop 1.00, multiplier 100, day_trade, and it has returned.
C18_Witness ==
    /\ riskOut # <<>>
    /\ riskIn[1].accountSize = RInt(1000) /\ riskIn[1].riskPct = Pcm(1000)
    /\ riskIn[1].entry = Cents(100) /\ riskIn[1].stop = Cents(100)
    /\ riskIn[1].multiplier = DefaultMultiplier /\ riskIn[1].strategy = "day_trade"
    /\ riskOut[1] = ZeroSizing

RECURSIVE SumSellQty(_)
SumSellQty(its) ==
    IF its = <<>> THEN 0 ELSE its[1].sellQty + SumSellQty(Tail(its))

\* C4: for every quantity >= 0 and any entry, takeProfit and stop, the
\* sellQty values of the iterations of buildScalingPlan sum to quantity,
\* with no iteration at all when quantity is 0.
C4_ScalingSum ==
    planOut # <<>> =>
        /\ SumSellQty(planOut[1].iterations) = planIn[1].qty
        /\ planIn[1].qty = 0 => planOut[1].iterations = <<>>

\* A plan of three iterations, the last of a single contract.
C4_Witness ==
    /\ planOut # <<>>
    /\ Len(planOut[1].iterations) = 3
    /\ planOut[1].iterations[3].sellQty = 1
    /\ planIn[1].qty >= 4

\* entry + (takeProfit - entry) * factor10 / 10, exactly.
Extension(a, factor10) ==
    RAdd(a.entry, RMul(RSub(a.takeProfit, a.entry), Rat(factor10, 10)))

\* t is x rounded to 2 decimals: a whole number of cents within half a cent.
RoundedTo2(t, x) ==
    /\ RMul(t, RInt(100)).d = 1
    /\ RLe(RAbs(RSub(t, x)), Rat(1, 200))

\* What is left after the first iteration of a plan for quantity q.
RemainingAfterFirst(q) == q - RCeil(Rat(q, 2))

\* C19: for every integer quantity >= 2 the first iteration of
\* buildScalingPlan sells ceil(quantity/2) at takeProfit; when exactly 1
\* contract remains it is sold in one iteration at entry + (takeProfit -
\* entry) * 1.3; when 2 or more remain, the second iteration sells
\* floor(remaining/2) at the 1.3 extension and a final iteration sells the
\* rest at the 1.6 extension; targets are rounded to 2 decimals and there
\* are never more than three iterations.
C19_PlanShape ==
    (planOut # <<>> /\ planIn[1].qty >= 2) =>
        LET a == planIn[1]
            its == planOut[1].iterations
            rem == RemainingAfterFirst(a.qty)
        IN  /\ Len(its) >= 2 /\ Len(its) <= 3
            /\ its[1].sellQty = RCeil(Rat(a.qty, 2))
            /\ RoundedTo2(its[1].target, a.takeProfit)
            /\ RoundedTo2(its[2].target, Extension(a, 13))
            /\ rem = 1 => Len(its) = 2 /\ its[2].sellQty = 1
            /\ rem >= 2 =>
                  /\ Len(its) = 3
                  /\ its[2].sellQty = RFloor(Rat(rem, 2))
                  /\ its[3].sellQty = rem - RFloor(Rat(rem, 2))
                  /\ RoundedTo2(its[3].target, Extension(a, 16))

\* A plan for an odd remainder of at least 3: the second iteration sells
\* fewer contracts than the final one, at targets that are not whole cents
\* before rounding.
C19_Witness ==
    /\ planOut # <<>> /\ planIn[1].qty >= 2
    /\ RemainingAfterFirst(planIn[1].qty) >= 3
    /\ Len(planOut[1].iterations) = 3
    /\ planOut[1].iterations[2].sellQty < planOut[1].iterations[3].sellQty
    /\ planOut[1].iterations[2].target # Extension(planIn[1], 13)
    /\ planOut[1].iterations[3].target # Extension(planIn[1], 16)

\* A plan for quantity 2 or 3: the single remaining contract goes at the 1.3
\* extension.
C19_RunnerReached ==
    /\ planOut # <<>> /\ planIn[1].qty >= 2
    /\ RemainingAfterFirst(planIn[1].qty) = 1
    /\ Len(planOut[1].iterations) = 2

---------------------------------------------------------------------------
(* Claims about ContractSelector *)

\* The places of the quotes of the requested type with a usable mid price.
Eligible(options, side) ==
    { i \in 1..Len(options) :
        /\ options[i].type = TypeOfSide(side)
        /\ midPrice(options[i]) # <<>>
        /\ RLt(RInt(0), midPrice(options[i])[1]) }

\* 0.45*deltaScore + 0.30*spreadScore + 0.15*oiScore + 0.10*volScore, in 1/1000000
WeightedScore(q, side, o) ==
    LET sc == scoreOption(q, TypeOfSide(side), o)
    IN  45 * sc.deltaScore + 30 * sc.spreadScore + 15 * sc.oiScore + 10 * sc.volScore

\* C5: when a quote of the requested type has a usable mid price,
\* selectOptimalOption returns one of those quotes, of the requested type,
\* whose weighted score 0.45*deltaScore + 0.30*spreadScore + 0.15*oiScore +
\* 0.10*volScore no other eligible quote of the list exceeds.
C5_SelectsMaxScore ==
    (selOut # <<>> /\ Eligible(selIn[1].options, selIn[1].side) # {}) =>
        LET a == selIn[1]
            r == selOut[1]
        IN  /\ r # <<>>
            /\ r[1].opt.type = TypeOfSide(a.side)
            /\ \E i \in Eligible(a.options, a.side) : a.options[i] = r[1].opt
            /\ \A j \in Eligible(a.options, a.side) :
                  WeightedScore(a.options[j], a.side, a.o)
                      <= WeightedScore(r[1].opt, a.side, a.o)

\* Two eligible quotes with different scores, the later one the better, and
\* a quote of the other type in the chain: the later one is returned.
C5_Witness ==
    /\ selOut # <<>> /\ selOut[1] # <<>>
    /\ LET a == selIn[1]
           r == selOut[1][1]
       IN  /\ Len(a.options) = 3
           /\ Eligible(a.options, a.side) = {1, 3}
           /\ a.options[3] = r.opt
           /\ WeightedScore(a.options[1], a.side, a.o)
                  < WeightedScore(a.options[3], a.side, a.o)

---------------------------------------------------------------------------
(* Claims about ExpiryResolver *)

\* A resolveExpiryDate call without override that returned, for cadence c.
ResolvedAs(c) ==
    /\ expOut # <<>> /\ expIn[1].override = <<>>
    /\ ToLowerCase(expIn[1].requestedType) = c
    /\ expOut[1].effectiveType = c

\* The last Friday on or before the last calendar day of month m (1..12) of year y.
LastFridayOfMonth(y, m) ==
    LET lastDay == (IF m = 12 THEN DaysFromCivil(y + 1, 1, 1)
                    ELSE DaysFromCivil(y, m + 1, 1)) - 1
    IN  CHOOSE f \in (lastDay - 6)..lastDay : DayOfWeek(f) = 5

\* C8 as stated: for cadence monthly the resolved expiry is the last Friday
\* of the current month when today is on or before the 15th, and the last
\* Friday of the next month when today is past the 15th (today and the
\* expiry as calendar dates of the machine's time zone).
C8_MonthlyLastFriday ==
    ResolvedAs("monthly") =>
        LET today == CivilFromDays(LocalDay(clock, zone))
            expiry == LocalDay(expOut[1].date, zone)
        IN  IF today.d <= 15
            THEN expiry = LastFridayOfMonth(today.y, today.m)
            ELSE expiry = (IF today.m = 12 THEN LastFridayOfMonth(today.y + 1, 1)
                           ELSE LastFridayOfMonth(today.y, today.m + 1))

\* The business days (Monday to Friday) after day a up to and including day b.
BusinessDaysAhead(a, b) == Cardinality({x \in (a + 1)..b : DayOfWeek(x) \in 1..5})

\* C9 as stated: for cadence weekly and every minBusinessDays >= 0 the
\* resolved expiry is a Friday of the UTC calendar at least minBusinessDays
\* business days ahead of now.
C9_WeeklyMinBusinessDays ==
    ResolvedAs("weekly") =>
        /\ DayOfWeek(UtcDay(expOut[1].date)) = 5
        /\ BusinessDaysAhead(UtcDay(clock), UtcDay(expOut[1].date))
              >= expIn[1].minBusinessDays

\* US Eastern daylight time: from 2:00 EST on the second Sunday of March to
\* 2:00 EDT on the first Sunday of November.
FirstSundayFrom(day) == day + ((7 - DayOfWeek(day)) % 7)
IsEDT(t) ==
    LET y == CivilFromDays(UtcDay(t)).y
    IN  /\ t >= UtcMidnight(FirstSundayFrom(DaysFromCivil(y, 3, 1)) + 7) + 7
        /\ t < UtcMidnight(FirstSundayFrom(DaysFromCivil(y, 11, 1))) + 6
EasternTime(t) == IF IsEDT(t) THEN t - 4 ELSE t - 5

\* The first day from day d on that is not a Saturday or Sunday.
FirstNonWeekendFrom(d) ==
    CHOOSE x \in d..(d + 2) :
        DayOfWeek(x) \in 1..5 /\ \A w \in d..(x - 1) : DayOfWeek(w) \notin 1..5

IsSpyZeroDte == expOut # <<>> /\ expIn[1].override = <<>> /\ expIn[1].symbol = "SPY"
                /\ expIn[1].requestedType = "0dte"

ZeroDteDisallowed ==
    /\ expIn # <<>> /\ expOut # <<>> /\ expIn[1].override = <<>>
    /\ ToLowerCase(expIn[1].requestedType) = "0dte"
    /\ HasConfig(expIn[1].symbol)
    /\ ~OPTION_CONFIG[expIn[1].symbol].supports0DTE

\* The fallback cadence of a symbol's policy, weekly when none is configured.
PolicyFallback(symbol) ==
    IF OPTION_CONFIG[symbol].fallbackExpiryType # <<>>
    THEN OPTION_CONFIG[symbol].fallbackExpiryType[1]
    ELSE "weekly"

\* C11: when 0dte is requested for a symbol whose policy disallows same-day
\* expiry, the effective cadence is the policy's fallback cadence (weekly
\* when none is configured), the date is the one of that cadence (for
\* weekly: a Friday after today), and fallbackReason is set.
C11_ZeroDteFallback ==
    ZeroDteDisallowed =>
        LET fb == PolicyFallback(expIn[1].symbol)
        IN  /\ expOut[1].effectiveType = fb
            /\ expOut[1].requestedType = "0dte"
            /\ expOut[1].date = getExpiryByType(fb, expIn[1].minBusinessDays, clock, zone)
            /\ fb = "weekly" => /\ DayOfWeek(UtcDay(expOut[1].date)) = 5
                                /\ UtcDay(expOut[1].date) > UtcDay(clock)
            /\ expOut[1].fallbackReason # <<>>
            /\ expOut[1].fallbackReason[1] # ""

\* 0DTE asked for HOOD, whose policy configures the weekly fallback, on a
\* Friday before 20:00 UTC: the expiry is not that day but a later Friday.
C11_Witness ==
    /\ ZeroDteDisallowed /\ expIn[1].symbol = "HOOD" /\ expIn[1].requestedType = "0DTE"
    /\ DayOfWeek(UtcDay(clock)) = 5 /\ UtcHours(clock) < 20
    /\ expOut[1].effectiveType = "weekly"
    /\ UtcDay(expOut[1].date) >= UtcDay(clock) + 7
    /\ expOut[1].fallbackReason # <<>>

---------------------------------------------------------------------------
(* Claims about the suggestion, the chain fetch and the callers *)

\* C3 as stated: every suggestion handed to computeQty, its prices from the
\* theoretical pricer or written over from a live chain quote, has
\* stop < entry < take-profit (the stop-loss fraction is in (0, 1) and the
\* take-profit multiple is positive in every checked call).
C3_StopBelowEntryBelowTarget ==
    sizing # <<>> =>
        /\ RLt(sizing[1].args.stop, sizing[1].args.entry)
        /\ RLt(sizing[1].args.entry, suggestion[1].take_profit)

\* The names of the selector calls made so far.
StepCalls == [i \in 1..Len(steps) |-> steps[i].call]

\* The caller kept the theoretical prices of buildSuggestion.
KeptTheoretical ==
    LET b == buildSuggestion(SuggestionArgs(callIn[1]), clock, zone)
    IN  /\ suggestion[1].entry_source \in {"model", "model_chain_fallback"}
        /\ suggestion[1].est_entry = b.est_entry
        /\ suggestion[1].stop = b.stop
        /\ suggestion[1].take_profit = b.take_profit

\* C6 as stated: every caller tries selectOptimal first, nearestStrike only
\* after selectOptimal returned null, and keeps the theoretical entry only
\* after nearestStrike also returned null; no other selection step runs
\* before selectOptimal.
C6_SelectOptimalFirst ==
    pc = "done" =>
        /\ steps[1].call = "selectOptimalOption"
        /\ \A i \in 1..Len(steps) :
              steps[i].call = "pickNearestStrike" =>
                  /\ i > 1 /\ steps[i - 1].call = "selectOptimalOption"
                  /\ ~steps[i - 1].found
        /\ suggestion[1].entry_source \in {"model", "model_chain_fallback"} =>
              \E i \in 1..Len(steps) :
                  steps[i].call = "pickNearestStrike" /\ ~steps[i].found

\* C6 amended: analyzeSymbol and suggestOne call selectOptimal first;
\* makeSuggestion of the market-open feeder first calls pickByDelta when a
\* target delta is configured, then pickByPremium when that found nothing
\* and a target premium is configured, and calls selectOptimal only when
\* these found nothing.  In every caller a selector runs only after all
\* earlier ones returned null, nearestStrike directly after selectOptimal
\* returned null.  The theoretical prices are kept when the last selector
\* returned null (entry source model) and also when the chosen quote has
\* no bid, ask or last price (entry source model_chain_fallback).
C6_SelectionOrder ==
    pc = "done" =>
        LET a == callIn[1]
            n == Len(steps)
        IN  /\ n >= 1
            /\ steps[1].call =
                  (IF a.caller = "market-open-feeder" /\ a.targetDelta # <<>>
                       THEN "pickByDelta"
                   ELSE IF a.caller = "market-open-feeder" /\ a.targetPremium # <<>>
                       THEN "pickByPremium"
                   ELSE "selectOptimalOption")
            /\ \A i \in 1..(n - 1) : ~steps[i].found
            /\ \A i \in 1..n :
                  /\ steps[i].call = "pickNearestStrike" =>
                        i > 1 /\ steps[i - 1].call = "selectOptimalOption"
                  /\ steps[i].call = "selectOptimalOption" =>
                        \A j \in 1..(i - 1) : steps[j].call \in {"pickByDelta", "pickByPremium"}
                  /\ steps[i].call = "pickByPremium" =>
                        \A j \in 1..(i - 1) : steps[j].call = "pickByDelta"
                  /\ steps[i].call = "pickByDelta" => i = 1
                  /\ steps[i].call \in {"pickByDelta", "pickByPremium"} =>
                        a.caller = "market-open-feeder"
            /\ ~steps[n].found => steps[n].call = "pickNearestStrike"
            /\ suggestion[1].entry_source = "model" <=> ~steps[n].found
            /\ suggestion[1].entry_source = "model_chain_fallback" <=>
                  (steps[n].found /\ midPrice(liveOption[1].opt) = <<>>)
            /\ suggestion[1].entry_source \in {"model", "model_chain_fallback"}
                  => KeptTheoretical

\* makeSuggestion with a target delta took the quote pickByDelta found in a
\* chain without prices, never called selectOptimal and kept the
\* theoretical entry.
C6_Witness ==
    /\ pc = "done" /\ callIn[1].caller = "market-open-feeder"
    /\ StepCalls = <<"pickByDelta">> /\ steps[1].found
    /\ suggestion[1].entry_source = "model_chain_fallback"

\* Every provider of the fallback order failed (threw, timed out or
\* answered non-2xx).
AllProvidersFail == callIn # <<>> /\ callIn[1].etrade = <<>> /\ callIn[1].fmp = <<>>

\* C7: when the chain fetch fails for every provider, fetchOptionChain
\* resolves to no source and no options instead of throwing, no selector
\* finds a candidate, and the caller hands the suggestion to computeQty with
\* the entry, stop and target of the theoretical pricer and the entry source
\* marked as model.
C7_FetchFailureKeepsModel ==
    AllProvidersFail =>
        /\ chainResult # <<>> =>
              chainResult[1].options = <<>> /\ chainResult[1].source = <<>>
        /\ candidate = <<>> /\ liveOption = <<>>
        /\ \A i \in 1..Len(steps) : ~steps[i].found
        /\ pc \in {"size", "done"} =>
              suggestion[1].entry_source = "model" /\ KeptTheoretical
        /\ pc = "done" =>
              /\ sizing # <<>>
              /\ sizing[1].args.entry = suggestion[1].est_entry
              /\ sizing[1].args.stop = suggestion[1].stop

\* analyzeSymbol finished a suggestion although both providers failed: both
\* selectors were tried on the empty chain.
C7_Witness ==
    /\ AllProvidersFail /\ pc = "done" /\ callIn[1].caller = "ai-agent"
    /\ StepCalls = <<"selectOptimalOption", "pickNearestStrike">>
    /\ suggestion[1].entry_source = "model" /\ sizing # <<>>

---------------------------------------------------------------------------
(* Claims about SuggestionBuilder *)

\* A buildSuggestion call that is over, for a symbol without entry in
\* OPTION_CONFIG.
UnknownSymbolBuilt ==
    callIn # <<>> /\ pc # "build" /\ callIn[1].symbol \notin DOMAIN OPTION_CONFIG

\* C12: building a suggestion for a symbol that has no entry in the symbol
\* policy table fails with the unsupported-symbol error and nothing else: the
\* result carries no strike, expiry, multiplier, cadence or price, and the
\* caller goes no further.  A symbol with an entry is not rejected.
C12_UnknownSymbolRejected ==
    /\ UnknownSymbolBuilt =>
          /\ pc = "failed"
          /\ suggestion = <<[error |-> "Unsupported symbol for options config"]>>
          /\ chainResult = <<>> /\ sizing = <<>>
    /\ (callIn # <<>> /\ pc # "build" /\ callIn[1].symbol \in DOMAIN OPTION_CONFIG) =>
          /\ pc # "failed"
          /\ {"strike", "expiry", "multiplier", "est_entry"} \subseteq DOMAIN suggestion[1]

\* COIN with the 0dte cadence, which resolveExpiryDate would turn into
\* weekly for a symbol without entry: the call has failed.
C12_Witness ==
    /\ UnknownSymbolBuilt /\ callIn[1].symbol = "COIN" /\ callIn[1].expiryType = "0dte"
    /\ pc = "failed" /\ DOMAIN suggestion[1] = {"error"}

\* The fraction out of the money a call asks for: the caller's otmPct, or the
\* symbol's default when the caller passes none.
OtmPctAsked(a) ==
    IF SuggestionArgs(a).otmPct # <<>> THEN SuggestionArgs(a).otmPct[1]
    ELSE Rat(OPTION_CONFIG[a.symbol].defaultOTMPct, 1000)

\* C20 as stated: the suggested strike is a whole multiple of the symbol's
\* strike increment; for a call it is the smallest multiple that is
\* >= spot * (1 + otmPct), for a put the largest multiple that is
\* <= spot * (1 - otmPct).
C20_StrikeOnIncrement ==
    (callIn # <<>> /\ pc = "fetch") =>
        LET a == callIn[1]
            inc == Cents(OPTION_CONFIG[a.symbol].strikeIncrement)
            strike == suggestion[1].strike
            up == RMul(a.price, RAdd(RInt(1), OtmPctAsked(a)))
            down == RMul(a.price, RSub(RInt(1), OtmPctAsked(a)))
        IN  /\ RDiv(strike, inc).d = 1
            /\ a.side = "call" => RLe(up, strike) /\ RLt(RSub(strike, inc), up)
            /\ a.side = "put" => RLe(strike, down) /\ RLt(down, RAdd(strike, inc))

---------------------------------------------------------------------------
(* Claims about ContractSelector: mid price, nearest strike, spread *)

\* C13 as stated: the mid price of a quote is (bid+ask)/2 only when bid and
\* ask are both present and ask >= bid > 0; otherwise it is last when last is
\* present; otherwise it is whichever of ask or bid is present; otherwise
\* the quote has no mid price.
C13_MidPrice ==
    (selIn # <<>> /\ selOut # <<>>) =>
        LET q == selIn[1]
            mid == selOut[1]
        IN  IF q.bid # NoNum /\ q.ask # NoNum /\ q.ask >= q.bid /\ q.bid > 0
            THEN mid = <<Rat(q.bid + q.ask, 200)>>
            ELSE IF q.last # NoNum THEN mid = <<Cents(q.last)>>
            ELSE IF q.ask # NoNum \/ q.bid # NoNum
                 THEN mid \in {<<Cents(x)>> : x \in {q.ask, q.bid} \ {NoNum}}
                 ELSE mid = <<>>

\* The quotes of a list that have the requested type.
OfType(options, side) == {i \in 1..Len(options) : options[i].type = TypeOfSide(side)}

\* C14: selectOptimalOption answers an unusable quote set with null, not
\* with an error: over lists of quotes in which every field but strike and
\* type may be missing, it returns null when no quote of the requested type
\* has a usable mid price (one that is there and positive), and otherwise a
\* quote of the list, of that type, with its metrics.
C14_NullOnUnusable ==
    (selIn # <<>> /\ selOut # <<>> /\ "options" \in DOMAIN selIn[1]) =>
        LET a == selIn[1]
            r == selOut[1]
        IN  /\ Eligible(a.options, a.side) = {} => r = <<>>
            /\ Eligible(a.options, a.side) # {} =>
                  /\ r # <<>>
                  /\ DOMAIN r[1] = {"opt", "metrics"}
                  /\ \E i \in OfType(a.options, a.side) : a.options[i] = r[1].opt
                  /\ RLt(RInt(0), r[1].metrics.mid)

\* Null for a list that has quotes of the requested type, one without any
\* price and one with zero prices, next to a priced quote of the other type.
C14_Witness ==
    /\ selIn # <<>> /\ selOut = << <<>> >> /\ "options" \in DOMAIN selIn[1]
    /\ Len(selIn[1].options) = 3
    /\ \E i, j \in OfType(selIn[1].options, selIn[1].side) :
          /\ midPrice(selIn[1].options[i]) = <<>>
          /\ midPrice(selIn[1].options[j]) = <<RInt(0)>>
    /\ \E k \in 1..3 : /\ k \notin OfType(selIn[1].options, selIn[1].side)
                       /\ midPrice(selIn[1].options[k]) # <<>>
                       /\ RLt(RInt(0), midPrice(selIn[1].options[k])[1])

\* |strike - targetStrike| of a quote
StrikeDistance(q, targetStrike) == RAbs(RSub(q.strike, targetStrike))

\* C15: pickNearestStrike ignores prices.  When the list has a quote of the
\* requested type it returns one of them whose distance |strike -
\* targetStrike| no other quote of that type undercuts, whether or not the
\* quote has a bid, ask or last; when the list has none it returns null.
C15_NearestIgnoresPrices ==
    (selIn # <<>> /\ selOut # <<>> /\ "targetStrike" \in DOMAIN selIn[1]) =>
        LET a == selIn[1]
            r == selOut[1]
        IN  IF OfType(a.options, a.side) = {}
            THEN r = <<>>
            ELSE /\ r # <<>>
                 /\ \E i \in OfType(a.options, a.side) : a.options[i] = r[1].opt
                 /\ \A j \in OfType(a.options, a.side) :
                       RLe(StrikeDistance(r[1].opt, a.targetStrike),
                           StrikeDistance(a.options[j], a.targetStrike))

\* The quote returned has no bid, ask or last, and a priced quote of the
\* same type stands farther from the target.
C15_Witness ==
    /\ selIn # <<>> /\ selOut # <<>> /\ "targetStrike" \in DOMAIN selIn[1]
    /\ selOut[1] # <<>> /\ midPrice(selOut[1][1].opt) = <<>>
    /\ \E j \in OfType(selIn[1].options, selIn[1].side) :
          /\ midPrice(selIn[1].options[j]) # <<>>
          /\ RLt(StrikeDistance(selOut[1][1].opt, selIn[1].targetStrike),
                 StrikeDistance(selIn[1].options[j], selIn[1].targetStrike))

\* A returned pair of selections for the thresholds lo and hi
SelectedBoth == selIn # <<>> /\ selOut # <<>> /\ "lo" \in DOMAIN selIn[1]

\* The spreadScore (in 1/10000) of quote q under maxSpreadPct m
SpreadScoreAt(q, a, m) == scoreOption(q, TypeOfSide(a.side), WithMaxSpread(a.o, m)).spreadScore

\* C16 as stated: for a fixed candidate set, targetDelta and
\* minOpenInterest, increasing maxSpreadPct never lowers the spreadScore of
\* any candidate quote, its spread known or unknown, and so never lowers the
\* chosen quote's spreadScore.
C16_SpreadMonotone ==
    SelectedBoth =>
        LET a == selIn[1]
        IN  /\ \A i \in Eligible(a.options, a.side) :
                  SpreadScoreAt(a.options[i], a, a.lo) <= SpreadScoreAt(a.options[i], a, a.hi)
            /\ (selOut[1].lo # <<>> /\ selOut[1].hi # <<>>) =>
                  selOut[1].lo[1].metrics.spreadScore <= selOut[1].hi[1].metrics.spreadScore

\* C16 amended: increasing maxSpreadPct from a value of at least 0.01 never
\* lowers the spreadScore of any candidate quote; a quote whose spread is
\* unknown scores 0 at every maxSpreadPct of at least 0.01.  The chosen
\* quote's spreadScore is not lowered as long as the same quote is chosen;
\* the choice itself may move to another quote.
C16_SpreadMonotoneAboveFloor ==
    (SelectedBoth /\ selIn[1].lo >= 1) =>
        LET a == selIn[1]
        IN  /\ \A i \in Eligible(a.options, a.side) :
                  /\ SpreadScoreAt(a.options[i], a, a.lo) <= SpreadScoreAt(a.options[i], a, a.hi)
                  /\ (~IsNum(a.options[i].bid) \/ ~IsNum(a.options[i].ask)) =>
                        /\ SpreadScoreAt(a.options[i], a, a.lo) = 0
                        /\ SpreadScoreAt(a.options[i], a, a.hi) = 0
            /\ (selOut[1].lo # <<>> /\ selOut[1].hi # <<>>
                  /\ selOut[1].lo[1].opt = selOut[1].hi[1].opt) =>
                  selOut[1].lo[1].metrics.spreadScore <= selOut[1].hi[1].metrics.spreadScore
            /\ (selOut[1].lo = <<>>) <=> (selOut[1].hi = <<>>)

\* maxSpreadPct raised from 0.30 to 0.40: the quote chosen both times has a
\* known spread and its spreadScore went up.
C16_Witness ==
    /\ SelectedBoth /\ selIn[1].lo = 30 /\ selIn[1].hi = 40
    /\ selOut[1].lo # <<>> /\ selOut[1].hi # <<>>
    /\ selOut[1].lo[1].opt = selOut[1].hi[1].opt
    /\ IsNum(selOut[1].lo[1].opt.bid) /\ IsNum(selOut[1].lo[1].opt.ask)
    /\ selOut[1].lo[1].metrics.spreadScore < selOut[1].hi[1].metrics.spreadScore

\* maxSpreadPct raised from at least 0.01: the choice moved to another
\* quote, whose spreadScore is lower than the first choice's was.
C16_ChoiceMoved ==
    /\ SelectedBoth /\ selIn[1].lo >= 1
    /\ selOut[1].lo # <<>> /\ selOut[1].hi # <<>>
    /\ selOut[1].lo[1].opt # selOut[1].hi[1].opt
    /\ selOut[1].hi[1].metrics.spreadScore < selOut[1].lo[1].metrics.spreadScore

\* What C22 asks of a returned call with an override.
OverrideHonoured(a, r) ==
    IF ~a.override[1].valid
    THEN "error" \in DOMAIN r
    ELSE /\ "error" \notin DOMAIN r
         /\ r.date = a.override[1].t
         /\ r.effectiveType = "custom"
         /\ r.fallbackReason = <<>>

\* C22: when an override expiry is supplied, the resolution fails with an
\* invalid-override error if the string cannot be parsed as a date, and
\* otherwise returns that date with effective cadence 'custom' and no
\* fallbackReason, whatever the symbol's policy and the requested cadence.
C22_OverrideResolution ==
    (expOut # <<>> /\ expIn[1].override # <<>>) => OverrideHonoured(expIn[1], expOut[1])

\* The same of resolveExpiryDate alone, the copy of the module that has it.
C22_ResolveExpiryDateOnly ==
    (expOut # <<>> /\ expIn[1].override # <<>> /\ expIn[1].copy = "part_002")
        => OverrideHonoured(expIn[1], expOut[1])

\* A call without override has returned a date for one of the given cadences.
ResolvedAmong(types) ==
    /\ expOut # <<>> /\ expIn[1].override = <<>>
    /\ "date" \in DOMAIN expOut[1] /\ expOut[1].effectiveType \in types

\* The date is not before today, in the UTC calendar (the one formatExpiryISO
\* prints) or in the calendar of the machine's time zone.
NotBeforeToday ==
    \/ UtcDay(expOut[1].date) >= UtcDay(clock)
    \/ LocalDay(expOut[1].date, zone) >= LocalDay(clock, zone)

\* C26: for cadences 0dte, weekly and monthly (no override) the resolved
\* expiry date is never earlier than today's date, at any day of the month
\* and any time of day.
C26_ExpiryNotBeforeToday ==
    ResolvedAmong({"0dte", "weekly", "monthly"}) => NotBeforeToday

\* The same of 0dte and weekly alone.
C26_ZeroDteAndWeekly ==
    ResolvedAmong({"0dte", "weekly"}) => NotBeforeToday

\* The same of monthly up to the last Friday of the month.
C26_MonthlyUpToLastFriday ==
    (/\ ResolvedAmong({"monthly"})
     /\ LocalDay(clock, zone) <=
            LastFridayOfMonth(CivilFromDays(LocalDay(clock, zone)).y,
                              CivilFromDays(LocalDay(clock, zone)).m))
        => NotBeforeToday

---------------------------------------------------------------------------
(* Claims about OptionPricer *)

\* C21: bsOptionPrice never returns a negative value, for every spot > 0,
\* strike > 0, rate, side, time to expiry and volatility: neither in the
\* degenerate branch (time to expiry <= 0 or volatility <= 0) nor in the
\* Black-Scholes branch.
C21_PriceNonNegative ==
    priceOut # <<>> => priceOut[1].sign >= 0

\* The degenerate branch alone: the intrinsic value, which is >= 0.
C21_DegenerateIsIntrinsic ==
    (priceOut # <<>> /\ (priceIn[1].days <= 0 \/ priceIn[1].sigma <= 0)) =>
        /\ priceOut[1].sign >= 0
        /\ priceOut[1].cents =
              IF priceIn[1].type = "call"
              THEN (IF priceIn[1].S > priceIn[1].K THEN 100 * (priceIn[1].S - priceIn[1].K) ELSE 0)
              ELSE (IF priceIn[1].K > priceIn[1].S THEN 100 * (priceIn[1].K - priceIn[1].S) ELSE 0)

---------------------------------------------------------------------------
(* Claims about the dashboard server *)

\* A scan request made by action A while a scan runs is answered with 409
\* 'Scan already in progress' and leaves the stored results and the running
\* scan alone.
RejectedWhileScanning(A, source) ==
    (isScanning /\ A) =>
        /\ lastResponse' = <<rejectedResponse(source)>>
        /\ lastResponse'[1].status = 409
        /\ lastResponse'[1].error = "Scan already in progress"
        /\ UNCHANGED <<latestResults, lastScanMeta, lastScanError, running, isScanning>>

\* C23: while a scan is running, any further scan request (manual POST
\* /api/scan or the auto-scan timer) is answered with 409 'Scan already in
\* progress' and changes none of latestResults, lastScanMeta, lastScanError
\* or the running scan, so at most one scan runs at any time.
C23_DuplicateScanRejected ==
    /\ [](Cardinality(running) <= 1)
    /\ [][RejectedWhileScanning(PostScan, "manual")]_vars
    /\ [][RejectedWhileScanning(TimerFires, "auto")]_vars

\* A manual request has been turned down while the one scan goes on.
C23_Witness ==
    /\ isScanning /\ Cardinality(running) = 1
    /\ lastResponse = <<rejectedResponse("manual")>>

\* C28: at every moment at most one auto-scan timer is pending, and none is
\* pending while a scan is running: starting a scan cancels the pending
\* timer, scheduling cancels the previous timer first, and a configuration
\* update received during a scan creates no timer.
C28_OneTimerNoneWhileScanning ==
    /\ Cardinality(timers) <= 1
    /\ isScanning => timers = {}
    /\ timers # {} => scanTimer = <<(CHOOSE t \in timers : TRUE).id>>

\* A manual scan, the first, has started while the timer set at listen was
\* pending, and a configuration update has come in during it.
C28_Witness ==
    /\ isScanning /\ scanCount = 1 /\ timers = {}
    /\ \E sc \in running : sc.source = "manual"
    /\ nextScanDelayOverride = <<ConfigUpdateDelay>>

\* An update outside a scan has replaced the pending timer by its own.
C28_Rescheduled ==
    /\ ~isScanning /\ scanConfig > 0
    /\ timers # {} /\ \A t \in timers : t.delay = ConfigUpdateDelay

\* The timers pending after a scan has been scheduled with the given delay.
ScheduledWith(pending, delayMs) ==
    IF delayMs <= 0 THEN pending = {}
    ELSE Cardinality(pending) = 1 /\ \A t \in pending : t.delay = delayMs

\* C29: a watchlist or strategy update accepted while a scan is running does
\* not change the symbols or strategy of that running scan; the next scan is
\* scheduled 1500 ms after the running scan finishes and uses the updated
\* configuration, and the 1500 ms override is consumed once, so the scan
\* after that is scheduled at the normal interval.
C29_UpdateDuringScan ==
    /\ [][PostConfig => running' = running]_vars
    /\ [][FinishScan =>
            /\ ScheduledWith(timers', IF audit.updatedDuringScan THEN ConfigUpdateDelay
                                      ELSE env[1].interval)
            /\ nextScanDelayOverride' = <<>>]_vars
    /\ [][scanCount' # scanCount =>
            \E sc \in running' : sc.id = scanCount' /\ sc.config = scanConfig]_vars
    /\ [](nextScanDelayOverride # <<>> => isScanning)

\* The first scan has met an update and finished, the second, started by
\* the timer, has run with the updated configuration and without an update,
\* and has left the timer of the normal interval.
C29_Witness ==
    /\ Len(audit.finished) = 2 /\ ~isScanning
    /\ audit.finished[1].updated /\ audit.finished[1].delay = ConfigUpdateDelay
    /\ audit.finished[1].config = 0
    /\ audit.finished[2].config = 1 /\ ~audit.finished[2].updated
    /\ audit.finished[2].delay = DefaultIntervalMs
    /\ \E t \in timers : t.delay = DefaultIntervalMs

\* The step that ends a scan none of whose provider runs gave a summary.
AllFailedFinish ==
    FinishScan /\ \E sc \in running : sc.left = 0 /\ sc.summaries = 0 /\ sc \notin running'

\* C30: a scan in which every provider run fails leaves latestResults exactly
\* as it was before the scan, so GET /api/recommendations keeps serving the
\* previous recommendations; it only records the failure in lastScanMeta and
\* lastScanError and answers the trigger with status 502.
C30_AllFailedKeepsResults ==
    /\ [](isScanning => latestResults = audit.resultsAtStart)
    /\ [][AllFailedFinish =>
            /\ latestResults' = audit.resultsAtStart
            /\ lastScanMeta' # <<>> /\ ~lastScanMeta'[1].success
            /\ lastScanError' = <<"All AI provider scans failed">>
            /\ lastResponse'[1].status = 502 /\ ~lastResponse'[1].success]_vars
    /\ [][GetRecommendations =>
            lastResponse'[1].scan =
                IF latestResults = <<>> THEN 0 ELSE latestResults[1].scan]_vars

\* The first scan succeeded, the second failed in every provider run, and a
\* read after it was served the first scan's results.
C30_Witness ==
    /\ Len(audit.finished) = 2 /\ ~isScanning
    /\ ~audit.finished[1].allFailed /\ audit.finished[2].allFailed
    /\ latestResults # <<>> /\ latestResults[1].scan = 1
    /\ lastScanMeta[1].scan = 2 /\ ~lastScanMeta[1].success
    /\ lastResponse # <<>> /\ lastResponse[1].source = "recommendations"
    /\ lastResponse[1].scan = 1

\* C27: every scan that starts eventually clears the in-progress flag and,
\* when the configured scan interval is a positive finite number, leaves a
\* next auto-scan timer pending, whether all provider runs succeeded, some
\* failed, all failed, or the orchestration threw.
C27_ScanEndsAndReschedules ==
    /\ isScanning ~> ~isScanning
    /\ [][FinishScan =>
            /\ ~isScanning'
            /\ env[1].interval > 0 => Cardinality(timers') = 1]_vars
    /\ [](running # {} => isScanning)

\* A scan in which every run failed and then a scan with one failed and one
\* successful run have both ended with the flag cleared and the timer set.
C27_Witness ==
    /\ ~isScanning /\ Len(audit.finished) = 2 /\ env[1].interval > 0
    /\ Cardinality(timers) = 1
    /\ audit.finished[1].allFailed /\ ~audit.finished[2].allFailed
    /\ lastScanError = <<"One or more providers failed">>
    /\ latestResults # <<>> /\ latestResults[1].scan = 2

---------------------------------------------------------------------------
(* Claims about the feeder's retry wrapper *)

\* An error is transient: no HTTP status, a status >= 500, or 429.
Transient(err) == err.status = <<>> \/ err.status[1] >= 500 \/ err.status[1] = 429

\* C24: the retry wrapper retries transient errors up to 2 times: an
\* operation is attempted at most 3 times in total, only transient errors
\* are retried, a non-transient error is rethrown at once without another
\* attempt, and the last error is rethrown when the second retry also fails.
C24_RetryWrapper ==
    retry # <<>> =>
        LET r == retry[1]
            n == Len(r.errors)
        IN  /\ r.calls <= 3
            /\ \A i \in 1..n : (i < n \/ r.state # "thrown") => Transient(r.errors[i])
            /\ \A i \in 1..n : ~Transient(r.errors[i]) =>
                  i = n /\ r.state = "thrown" /\ r.calls = n
            /\ r.state = "thrown" =>
                  /\ r.thrown = <<r.errors[n]>> /\ r.calls = n
                  /\ Transient(r.errors[n]) => n = 3
            /\ r.state \in {"calling", "returned"} => r.calls = n + 1
            /\ r.state = "sleeping" => r.calls = n /\ n <= 2

\* The second retry has failed too and its error has been rethrown.
C24_Witness ==
    /\ retry # <<>> /\ retry[1].state = "thrown" /\ retry[1].calls = 3
    /\ retry[1].thrown = <<HttpError(503)>>
    /\ retry[1].errors[1] = NoStatus /\ retry[1].errors[2] = HttpError(429)

\* A 404 on the first attempt has been rethrown at once.
C24_RethrownAtOnce ==
    /\ retry # <<>> /\ retry[1].state = "thrown" /\ retry[1].calls = 1
    /\ retry[1].thrown = <<HttpError(404)>>

---------------------------------------------------------------------------
(* Claims about the bars provider's cache *)

\* A fetch is called in this step, and the last fetch for its key that came
\* back with bars before it.
FetchCalled == barCalls' = barCalls + 1
LastOkOfCall == barOk[<<barLog'[1].map, barLog'[1].key>>]

\* C25: a repeated bar fetch for the same key less than 20 seconds after a
\* successful fetch is answered from the cache without a new network
\* request, and a fetch for that key 20 seconds or more after the cached one
\* goes to the network again; the 20 seconds counted from the moment the
\* successful fetch returned its bars.
C25_Within20sOfSuccess ==
    [][(FetchCalled /\ LastOkOfCall # <<>>) =>
          /\ barNow - LastOkOfCall[1].completed < CacheTtlMs =>
                barLog'[1].from = "cache" /\ flights' = flights
          /\ barNow - LastOkOfCall[1].completed >= CacheTtlMs =>
                barLog'[1].from = "network"]_vars

\* C25 with the 20 seconds counted from the call of the fetch whose bars are
\* in the cache, the last one for the key that came back with bars: less
\* than 20 seconds after that call a fetch is answered from the cache with
\* those bars and without a request, from 20 seconds on and as long as no
\* fetch for the key has come back it goes to the network.
C25_Within20sOfCall ==
    [][FetchCalled =>
          IF LastOkOfCall # <<>> /\ barNow - LastOkOfCall[1].started < CacheTtlMs
          THEN /\ barLog'[1].from = "cache" /\ barLog'[1].data = LastOkOfCall[1].id
               /\ flights' = flights
          ELSE /\ barLog'[1].from = "network"
               /\ Cardinality(flights') = Cardinality(flights) + 1]_vars

\* A fetch 19 s after the call of the cached one, which took 1 s, has been
\* answered from the cache.
C25_Witness ==
    /\ barLog # <<>> /\ barLog[1].from = "cache"
    /\ barOk[<<barLog[1].map, barLog[1].key>>] # <<>>
    /\ barLog[1].at - barOk[<<barLog[1].map, barLog[1].key>>][1].started = 19000
    /\ barOk[<<barLog[1].map, barLog[1].key>>][1].completed -
           barOk[<<barLog[1].map, barLog[1].key>>][1].started = 1000

\* A fetch exactly 20 s after the call of the cached one has gone to the
\* network.
C25_Refetched ==
    /\ barLog # <<>> /\ barLog[1].from = "network"
    /\ barOk[<<barLog[1].map, barLog[1].key>>] # <<>>
    /\ barLog[1].at - barOk[<<barLog[1].map, barLog[1].key>>][1].started = CacheTtlMs

=============================================================================
